---- MODULE Spec2Model ----
(***************************************************************************)
(* State-machine model of the deltafi-dex-v1 on-chain program              *)
(* (src/deltafi-dex-v1/src/processor.rs, admin.rs, utils.rs).              *)
(*                                                                         *)
(* One instruction is one atomic step.  Every handler is an operator that  *)
(* maps the accounts it receives to a result record                        *)
(*     [err, acc, xfers, calc]                                             *)
(* holding the returned error code, the account buffers as the handler     *)
(* left them when it returned (partial writes included), the number of     *)
(* token-program calls it completed, and its arguments with the amounts    *)
(* it computed.  `process` hands that result to the ledger runtime, which  *)
(* keeps the buffers of a successful instruction and discards those of a   *)
(* failed one.                                                             *)
(*                                                                         *)
(* Amounts are small naturals.  Decimal values are integers scaled by WAD; *)
(* WAD is scaled down from 10^18 so that products stay inside the          *)
(* checker's integers.  The modules curve, math and state are not part of  *)
(* the available sources; their operations are modelled from the written  *)
(* specification of the program.                                           *)
(*                                                                         *)
(* Account lists are taken to be structurally well formed (program ids,    *)
(* authorities, mints, admin-fee destinations); the checks the properties  *)
(* depend on (swap type, pause flag, oracle keys, serum fingerprint,       *)
(* admin key and signature) are modelled explicitly.                       *)
(***************************************************************************)
EXTENDS Integers, Sequences, FiniteSets, TLC

VARIABLES
    swap,      \* SwapInfo account (pool account data, PoolState included)
    config,    \* ConfigInfo account
    ledger,    \* spl-token balances and the pool-share mint supply
    farm,      \* FarmInfo account and the FarmUser position
    clock,     \* Clock sysvar: current slot
    focus,     \* which account family the explored instruction sequence targets
    nops,      \* number of committed transactions so far
    last       \* outcome of the most recent instruction

vars == <<swap, config, ledger, farm, clock, focus, nops, last>>

----------------------------------------------------------------------------
(* Bounds of the exploration *)

MaxOps == 3           \* committed transactions per behaviour
MaxSlot == 1          \* slots the clock advances
MaxElapsed == 11      \* oldest Pyth price offered to get_pyth_price, in slots
MaxConf == 3          \* widest ordinary Pyth confidence interval offered
MaxDelta == 2         \* largest ordinary move between two Pyth aggregate prices
MaxAmountIn == 40     \* largest amount_in quoted on the curve on its own
MaxDeposit == 12      \* largest amount of a token offered to a pool on its own

(* Program constants *)

WAD == 100                          \* Decimal scale (10^18 in the program)
STALE_AFTER_SLOTS_ELAPSED == 10     \* processor.rs get_pyth_price
MIN_ACTIVE_PUBLISHERS == 3          \* processor.rs get_pyth_price
CONF_FACTOR == 50                   \* processor.rs get_pyth_price
VOLATILITY_FACTOR == 100            \* processor.rs get_pyth_price
PYTH_ONLY == 0                      \* OraclePriorityFlag::PYTH_ONLY.bits()
SERUM_ONLY == 1                     \* OraclePriorityFlag::SERUM_ONLY.bits()

\* Integer ranges of the program, scaled down with WAD: the largest u64 and
\* the i64 range.
I64_MAX == 1023
I64_MIN == -I64_MAX - 1
U64_MAX == 2 * I64_MAX + 1

OK == "Ok"

Min(a, b) == IF a <= b THEN a ELSE b

Abs(a) == IF a < 0 THEN -a ELSE a

----------------------------------------------------------------------------
(* math::Decimal -- scaled integers, division truncating toward zero *)

DecFrom(n) == n * WAD

DecOne == WAD

DecZero == 0

DecMul(a, b) == (a * b) \div WAD

DecDiv(a, b) == (a * WAD) \div b

DecFloor(a) == a \div WAD

Pow10(n) ==
    IF n = 0 THEN 1 ELSE IF n = 1 THEN 10 ELSE IF n = 2 THEN 100 ELSE IF n = 3 THEN 1000 ELSE 10000

----------------------------------------------------------------------------
(* curve::SwapDirection *)

SellBase == "SellBase"

SellQuote == "SellQuote"

Directions == {SellBase, SellQuote}

----------------------------------------------------------------------------
(* state::Fees and state::Rewards: a rate is a numerator/denominator pair, *)
(* applied with truncating division.                                       *)

Rate(amount, num, den) == IF den = 0 THEN -1 ELSE (amount * num) \div den

trade_fee(fees, amount) == Rate(amount, fees.trade_fee_numerator, fees.trade_fee_denominator)

admin_trade_fee(fees, fee) ==
    Rate(fee, fees.admin_trade_fee_numerator, fees.admin_trade_fee_denominator)

withdraw_fee(fees, amount) ==
    Rate(amount, fees.withdraw_fee_numerator, fees.withdraw_fee_denominator)

admin_withdraw_fee(fees, fee) ==
    Rate(fee, fees.admin_withdraw_fee_numerator, fees.admin_withdraw_fee_denominator)

trade_reward_u64(rewards, amount) ==
    Min(Rate(amount, rewards.trade_reward_numerator, rewards.trade_reward_denominator),
        rewards.trade_reward_cap)

\* The referrer's share of a trade reward, as a fraction.
ReferralRewardRate == [numerator |-> 1, denominator |-> 2]

referral_reward(rewards, amount) ==
    Rate(amount, ReferralRewardRate.numerator, ReferralRewardRate.denominator)

----------------------------------------------------------------------------
(* curve::PoolState.  Every operation returns [err, ps, ...]: the error    *)
(* code and the pool state as the operation leaves it.                     *)

PoolStateNew(market_price, slope, slot) ==
    [ market_price |-> market_price,
      slope |-> slope,
      base_reserve |-> DecZero,
      quote_reserve |-> DecZero,
      total_supply |-> 0,
      last_market_price |-> market_price,
      last_valid_market_price_slot |-> slot ]

\* Re-bases a price quoted per whole token into the pool's raw-unit convention.
set_market_price(ps, base_decimals, quote_decimals, price) ==
    [ err |-> OK,
      ps |-> [ps EXCEPT !.market_price =
                 (price * Pow10(quote_decimals)) \div Pow10(base_decimals)] ]

\* An update that takes any slot.
check_and_update_any_slot(ps, price, slot) ==
    [err |-> OK,
     ps |-> [ps EXCEPT !.last_market_price = price, !.last_valid_market_price_slot = slot]]

\* An update that asks for a slot at least two past the last accepted one.
check_and_update_skipping_a_slot(ps, price, slot) ==
    IF slot <= ps.last_valid_market_price_slot + 1
    THEN [err |-> "StalePrice", ps |-> ps]
    ELSE [err |-> OK,
          ps |-> [ps EXCEPT !.last_market_price = price,
                            !.last_valid_market_price_slot = slot]]

\* Rejects a price whose slot is not newer than the last accepted one.
check_and_update_market_price_and_slot(ps, price, slot) ==
    IF slot <= ps.last_valid_market_price_slot
    THEN [err |-> "StalePrice", ps |-> ps]
    ELSE [err |-> OK,
          ps |-> [ps EXCEPT !.last_market_price = price,
                            !.last_valid_market_price_slot = slot]]

\* Share purchase: bootstrap when total_supply = 0, proportional afterwards.
buy_shares(ps, base_amount, quote_amount) ==
    IF ps.total_supply = 0
    THEN LET base == DecFrom(base_amount)
             quote == DecFrom(quote_amount)
             shares == IF ps.market_price = 0 THEN -1
                       ELSE IF DecMul(ps.market_price, base) > quote
                            THEN DecFloor(DecDiv(quote, ps.market_price))
                            ELSE base_amount
         IN  IF shares <= 0
             THEN [err |-> "CalculationFailure", ps |-> ps, mint |-> 0, base |-> 0, quote |-> 0]
             ELSE [err |-> OK,
                   ps |-> [ps EXCEPT !.base_reserve = base,
                                     !.quote_reserve = quote,
                                     !.total_supply = shares],
                   mint |-> shares, base |-> base_amount, quote |-> quote_amount]
    ELSE IF ps.base_reserve = 0 \/ ps.quote_reserve = 0
    THEN [err |-> "CalculationFailure", ps |-> ps, mint |-> 0, base |-> 0, quote |-> 0]
    ELSE LET base_ratio == DecDiv(DecFrom(base_amount), ps.base_reserve)
             quote_ratio == DecDiv(DecFrom(quote_amount), ps.quote_reserve)
             ratio == Min(base_ratio, quote_ratio)
             base_in == DecFloor(DecMul(ps.base_reserve, ratio))
             quote_in == DecFloor(DecMul(ps.quote_reserve, ratio))
             shares == DecFloor(DecMul(DecFrom(ps.total_supply), ratio))
         IN  [err |-> OK,
              ps |-> [ps EXCEPT !.base_reserve = @ + DecFrom(base_in),
                                !.quote_reserve = @ + DecFrom(quote_in),
                                !.total_supply = @ + shares],
              mint |-> shares, base |-> base_in, quote |-> quote_in]

\* A redemption that pays one unit of each token too many.
sell_shares_rounded_up(ps, share_amount, min_base, min_quote) ==
    LET base_out == 1 + DecFloor((ps.base_reserve * share_amount) \div ps.total_supply)
        quote_out == 1 + DecFloor((ps.quote_reserve * share_amount) \div ps.total_supply)
    IN  [err |-> OK,
         ps |-> [ps EXCEPT !.base_reserve = @ - DecFrom(base_out),
                           !.quote_reserve = @ - DecFrom(quote_out),
                           !.total_supply = @ - share_amount],
         base |-> base_out, quote |-> quote_out]

\* Share redemption, with the caller's floors on the two amounts paid out of the reserves.
sell_shares(ps, share_amount, min_base, min_quote) ==
    IF ps.total_supply = 0 \/ share_amount > ps.total_supply
    THEN [err |-> "CalculationFailure", ps |-> ps, base |-> 0, quote |-> 0]
    ELSE LET base_out == DecFloor((ps.base_reserve * share_amount) \div ps.total_supply)
             quote_out == DecFloor((ps.quote_reserve * share_amount) \div ps.total_supply)
         IN  IF base_out < min_base \/ quote_out < min_quote
             THEN [err |-> "WithdrawNotEnough", ps |-> ps, base |-> 0, quote |-> 0]
             ELSE [err |-> OK,
                   ps |-> [ps EXCEPT !.base_reserve = @ - DecFrom(base_out),
                                     !.quote_reserve = @ - DecFrom(quote_out),
                                     !.total_supply = @ - share_amount],
                   base |-> base_out, quote |-> quote_out]

\* A quote that is rounded up instead of down.
get_out_amount_rounded_up(ps, amount_in, direction) ==
    [err |-> OK, out |-> 1 + DecFloor(DecMul(DecFrom(amount_in), ps.market_price))]

\* Bonding curve: the fair value of the input at market_price, reduced by a
\* price impact that grows with the trade size and with slope.
get_out_amount(ps, amount_in, direction) ==
    IF ps.market_price = 0
    THEN [err |-> "CalculationFailure", out |-> 0]
    ELSE LET fair == IF direction = SellBase
                     THEN DecMul(DecFrom(amount_in), ps.market_price)
                     ELSE DecDiv(DecFrom(amount_in), ps.market_price)
             reserve == IF direction = SellBase THEN ps.quote_reserve ELSE ps.base_reserve
             den == reserve + DecMul(ps.slope, fair)
         IN  IF den = 0
             THEN [err |-> IF fair = 0 THEN OK ELSE "CalculationFailure", out |-> 0]
             ELSE [err |-> OK, out |-> DecFloor((fair * reserve) \div den)]

\* A trade that also books the input as new shares.
PoolSwapMinting(ps, amount_in, amount_out, direction) ==
    [err |-> OK,
     ps |-> IF direction = SellBase
            THEN [ps EXCEPT !.base_reserve = @ + DecFrom(amount_in),
                            !.quote_reserve = @ - DecFrom(amount_out),
                            !.total_supply = @ + amount_in]
            ELSE [ps EXCEPT !.quote_reserve = @ + DecFrom(amount_in),
                            !.base_reserve = @ - DecFrom(amount_out),
                            !.total_supply = @ + amount_in]]

\* Commits a trade to the reserves.
PoolSwap(ps, amount_in, amount_out, direction) ==
    LET out_reserve == IF direction = SellBase THEN ps.quote_reserve ELSE ps.base_reserve
    IN  IF DecFrom(amount_out) > out_reserve
        THEN [err |-> "CalculationFailure", ps |-> ps]
        ELSE [err |-> OK,
              ps |-> IF direction = SellBase
                     THEN [ps EXCEPT !.base_reserve = @ + DecFrom(amount_in),
                                     !.quote_reserve = @ - DecFrom(amount_out)]
                     ELSE [ps EXCEPT !.quote_reserve = @ + DecFrom(amount_in),
                                     !.base_reserve = @ - DecFrom(amount_out)]]

\* The liquidity providers' part of a fee stays in the reserves.
collect_trade_fee(ps, base_fee, quote_fee) ==
    [err |-> OK,
     ps |-> [ps EXCEPT !.base_reserve = @ + DecFrom(base_fee),
                       !.quote_reserve = @ + DecFrom(quote_fee)]]

check_reserve_amount(ps, base_balance, quote_balance) ==
    IF ps.base_reserve = DecFrom(base_balance) /\ ps.quote_reserve = DecFrom(quote_balance)
    THEN OK ELSE "InconsistentPoolState"

check_mint_supply(ps, supply) ==
    IF ps.total_supply = supply THEN OK ELSE "InconsistentPoolState"

\* A pool without a swap-out limit.
check_swap_out_amount_unlimited(sw, amount_out, direction) == OK

\* state::SwapInfo::check_swap_out_amount
check_swap_out_amount(sw, amount_out, direction) ==
    LET reserve == IF direction = SellBase THEN sw.pool_state.quote_reserve
                   ELSE sw.pool_state.base_reserve
    IN  IF DecFrom(amount_out) * 100 > reserve * sw.swap_out_limit_percentage
        THEN "ExceededSwapOutLimit" ELSE OK

----------------------------------------------------------------------------
(* Oracle resolution (processor.rs).  A Pyth price account is a record     *)
(* [ptype, status, ncomp, valid_slot, price, conf, prev_price, expo] with  *)
(* ncomp the number of publisher components in Trading status.  A Serum    *)
(* order book is [owner_ok, mints_ok, base_lot, quote_lot, bid, ask] with  *)
(* bid/ask the best price lots, -1 for an empty side.                      *)

\* A staleness test that lets a price of exactly the limit age through.
is_stale_beyond_limit(slots_elapsed) == slots_elapsed > STALE_AFTER_SLOTS_ELAPSED

\* get_pyth_price: slots_elapsed >= STALE_AFTER_SLOTS_ELAPSED
is_stale(slots_elapsed) == slots_elapsed >= STALE_AFTER_SLOTS_ELAPSED

\* A quorum of two publishers.
has_quorum_of_two(ncomp) == ncomp >= MIN_ACTIVE_PUBLISHERS - 1

\* get_pyth_price: at least 3 components in Trading status
has_quorum(ncomp) == ncomp >= MIN_ACTIVE_PUBLISHERS

\* A confidence test that also refuses a confidence of exactly 2% of the price.
is_inconfident_at_limit(price, conf) == conf > 0 /\ price <= conf * CONF_FACTOR

\* get_pyth_price: conf > 0 && price < conf * 50
is_inconfident(price, conf) == conf > 0 /\ price < conf * CONF_FACTOR

\* A volatility test that compares the move with the previous price.
is_unstable_against_prev(price, prev_price) == prev_price < Abs(prev_price - price) * VOLATILITY_FACTOR

\* get_pyth_price: price < |prev_price - price| * 100
is_unstable(price, prev_price) == price < Abs(prev_price - price) * VOLATILITY_FACTOR

\* A conversion that drops the exponent.
pyth_price_to_decimal_unscaled(price, expo) == [err |-> OK, price |-> DecFrom(price)]

\* get_pyth_price: the aggregate price as a Decimal, scaled by 10^expo; the
\* power of ten is a u64 computed with checked_pow.
pyth_price_to_decimal(price, expo) ==
    IF Pow10(Abs(expo)) > U64_MAX THEN [err |-> "CalculationFailure", price |-> 0]
    ELSE IF expo >= 0 THEN [err |-> OK, price |-> DecFrom(price) * Pow10(expo)]
    ELSE [err |-> OK, price |-> DecFrom(price) \div Pow10(-expo)]

get_pyth_price(p, slot) ==
    IF p.ptype = "Unloadable" THEN [err |-> "InvalidAccountData", price |-> 0, slot |-> 0]
    ELSE IF p.ptype # "Price" THEN [err |-> "InvalidPythConfig", price |-> 0, slot |-> 0]
    ELSE IF p.status # "Trading" THEN [err |-> "InvalidPythConfig", price |-> 0, slot |-> 0]
    ELSE IF ~has_quorum(p.ncomp)
         THEN [err |-> "InvalidPythConfig", price |-> 0, slot |-> 0]
    ELSE IF slot - p.valid_slot < 0
         THEN [err |-> "CalculationFailure", price |-> 0, slot |-> 0]
    ELSE IF is_stale(slot - p.valid_slot)
         THEN [err |-> "StalePythPrice", price |-> 0, slot |-> 0]
    ELSE IF p.price < 0 THEN [err |-> "InvalidPythConfig", price |-> 0, slot |-> 0]
    ELSE IF p.conf > 0 /\ p.conf * CONF_FACTOR > U64_MAX
         THEN [err |-> "CalculationFailure", price |-> 0, slot |-> 0]
    ELSE IF is_inconfident(p.price, p.conf)
         THEN [err |-> "InconfidentPythPrice", price |-> 0, slot |-> 0]
    ELSE IF p.prev_price - p.price < I64_MIN \/ p.prev_price - p.price > I64_MAX
         THEN [err |-> "CalculationFailure", price |-> 0, slot |-> 0]
    ELSE IF Abs(p.prev_price - p.price) * VOLATILITY_FACTOR > I64_MAX
         THEN [err |-> "CalculationFailure", price |-> 0, slot |-> 0]
    ELSE IF is_unstable(p.price, p.prev_price)
         THEN [err |-> "UnstableMarketPrice", price |-> 0, slot |-> 0]
    ELSE IF pyth_price_to_decimal(p.price, p.expo).err # OK
         THEN [err |-> pyth_price_to_decimal(p.price, p.expo).err, price |-> 0, slot |-> 0]
    ELSE [err |-> OK,
          price |-> pyth_price_to_decimal(p.price, p.expo).price,
          slot |-> Min(slot, p.valid_slot)]

\* i64::abs of i64::MIN overflows: the call aborts in a build with overflow
\* checks and wraps to i64::MIN in one without, where the checked_mul that
\* follows fails. get_pyth_price above is the second build; this is both.
get_pyth_price_builds(p, slot) ==
    LET r == get_pyth_price(p, slot)
    IN  IF /\ r.err = "CalculationFailure"
           /\ slot - p.valid_slot >= 0
           /\ ~(p.conf > 0 /\ p.conf * CONF_FACTOR > U64_MAX)
           /\ p.prev_price - p.price = I64_MIN
        THEN {r, [err |-> "Panic", price |-> 0, slot |-> 0]}
        ELSE {r}

\* A resolution that takes the slot of the first price only.
get_market_price_from_pyth_first_slot(pa, pb, slot) ==
    LET a == get_pyth_price(pa, slot)
        b == get_pyth_price(pb, slot)
    IN  IF a.err # OK THEN a
        ELSE IF b.err # OK \/ b.price = 0 THEN [err |-> "CalculationFailure", price |-> 0, slot |-> 0]
        ELSE [err |-> OK, price |-> DecDiv(a.price, b.price), slot |-> a.slot]

get_market_price_from_pyth(pa, pb, slot) ==
    LET a == get_pyth_price(pa, slot)
        b == get_pyth_price(pb, slot)
    IN  IF a.err # OK THEN a
        ELSE IF b.err # OK THEN b
        ELSE IF b.price = 0 THEN [err |-> "CalculationFailure", price |-> 0, slot |-> 0]
        ELSE [err |-> OK, price |-> DecDiv(a.price, b.price), slot |-> Min(a.slot, b.slot)]

\* A midpoint of best bid and best ask in whole price lots.
calculate_serum_market_price_whole_lots(base_lot, quote_lot, bid, ask, base_decimals, quote_decimals) ==
    IF base_lot = 0 \/ Pow10(base_decimals) > U64_MAX \/ Pow10(quote_decimals) > U64_MAX
    THEN [err |-> "CalculationFailure", price |-> 0]
    ELSE [err |-> OK,
          price |-> (DecFrom((bid + ask) \div 2) * quote_lot * Pow10(base_decimals))
                        \div (base_lot * Pow10(quote_decimals))]

calculate_serum_market_price(base_lot, quote_lot, bid, ask, base_decimals, quote_decimals) ==
    LET lots == (DecFrom(bid) + DecFrom(ask)) \div 2
        num == quote_lot * Pow10(base_decimals)
        den == base_lot * Pow10(quote_decimals)
    IN  IF Pow10(base_decimals) > U64_MAX \/ Pow10(quote_decimals) > U64_MAX
        THEN [err |-> "CalculationFailure", price |-> 0]
        ELSE IF den = 0 THEN [err |-> "CalculationFailure", price |-> 0]
        ELSE [err |-> OK, price |-> (lots * num) \div den]

get_market_price_from_serum(book, base_decimals, quote_decimals) ==
    IF ~book.owner_ok THEN [err |-> "InvalidSerumProgramId", price |-> 0]
    ELSE IF book.bid < 0 \/ book.ask < 0 THEN [err |-> "InvalidSerumData", price |-> 0]
    ELSE calculate_serum_market_price(book.base_lot, book.quote_lot, book.bid, book.ask,
                                      base_decimals, quote_decimals)

\* OraclePriorityFlag::from_bits_truncate: the bits that belong to no flag are
\* dropped.  PYTH_ONLY is the empty bit set (the pools of tests/do_swap_v2.rs
\* and tests/init_swap_pool.rs are PYTH_ONLY with flags 0), SERUM_ONLY the
\* lowest bit.
from_bits_truncate(flags) == flags % 2

is_pyth_only(flags) == from_bits_truncate(flags) = PYTH_ONLY

get_market_price(flags, pa, pb, slot, book, base_decimals, quote_decimals) ==
    IF from_bits_truncate(flags) = PYTH_ONLY THEN get_market_price_from_pyth(pa, pb, slot)
    ELSE IF from_bits_truncate(flags) = SERUM_ONLY
    THEN LET r == get_market_price_from_serum(book, base_decimals, quote_decimals)
         IN  [err |-> r.err, price |-> r.price, slot |-> IF r.err = OK THEN slot ELSE 0]
    ELSE [err |-> "UnsupportedOraclePriority", price |-> 0, slot |-> 0]

\* utils::check_serum_accounts: the fingerprint is the hash of the three keys,
\* modelled as the triple itself (collision free).
SerumFingerprint(keys) == keys

\* A check of the account owners only.
check_serum_accounts_owner_only(book, keys, expected) ==
    IF ~book.owner_ok THEN "InvalidSerumProgramId" ELSE OK

check_serum_accounts(book, keys, expected) ==
    IF ~book.owner_ok THEN "InvalidSerumProgramId"
    ELSE IF SerumFingerprint(keys) # expected THEN "InvalidSerumMarketAccounts"
    ELSE OK

validate_serum_market_mint_address(book) ==
    IF book.mints_ok THEN OK ELSE "InvalidSerumMarketMintAddress"

\* An access check that compares the key and asks for no signature.
is_admin_key_only(expected_admin_key, signer) ==
    IF expected_admin_key # signer.key THEN "Unauthorized" ELSE OK

\* admin::is_admin
is_admin(expected_admin_key, signer) ==
    IF expected_admin_key # signer.key THEN "Unauthorized"
    ELSE IF ~signer.is_signer THEN "MissingRequiredSignature"
    ELSE OK

----------------------------------------------------------------------------
(* Token program calls.  A call sequence threads [err, led, n]: the first  *)
(* error, the balances so far and the number of calls completed.           *)

CpiStart(led) == [err |-> OK, led |-> led, n |-> 0]

token_transfer(st, from, to, amount) ==
    IF st.err # OK THEN st
    ELSE IF st.led[from] < amount THEN [st EXCEPT !.err = "TokenTransferFailed"]
    ELSE [err |-> OK,
          led |-> [st.led EXCEPT ![from] = @ - amount, ![to] = @ + amount],
          n |-> st.n + 1]

\* A mint call that is handed twice the amount.
token_mint_to_double(st, to, amount) ==
    IF st.err # OK THEN st
    ELSE [err |-> OK,
          led |-> [st.led EXCEPT !.supply = @ + 2 * amount, ![to] = @ + 2 * amount],
          n |-> st.n + 1]

token_mint_to(st, to, amount) ==
    IF st.err # OK THEN st
    ELSE [err |-> OK,
          led |-> [st.led EXCEPT !.supply = @ + amount, ![to] = @ + amount],
          n |-> st.n + 1]

token_burn(st, from, amount) ==
    IF st.err # OK THEN st
    ELSE IF st.led[from] < amount THEN [st EXCEPT !.err = "TokenBurnFailed"]
    ELSE [err |-> OK,
          led |-> [st.led EXCEPT !.supply = @ - amount, ![from] = @ - amount],
          n |-> st.n + 1]

----------------------------------------------------------------------------
(* Handler results *)

NoCalc == [kind |-> "none"]

\* The handler returned `e` before touching any buffer.
Fail(acc, e) == [err |-> e, acc |-> acc, xfers |-> 0, calc |-> NoCalc]

FailCalc(acc, e, calc) == [err |-> e, acc |-> acc, xfers |-> 0, calc |-> calc]

\* spl-token mint decimals of token A and token B
MintDecimals == [a |-> 0, b |-> 0]

SwapInfoDefault ==
    [ is_initialized |-> FALSE,
      is_paused |-> FALSE,
      swap_type |-> "Normal",
      pyth_a |-> "zero",
      pyth_b |-> "zero",
      fees |-> [ trade_fee_numerator |-> 0, trade_fee_denominator |-> 0,
                 admin_trade_fee_numerator |-> 0, admin_trade_fee_denominator |-> 0,
                 withdraw_fee_numerator |-> 0, withdraw_fee_denominator |-> 0,
                 admin_withdraw_fee_numerator |-> 0, admin_withdraw_fee_denominator |-> 0 ],
      rewards |-> [ trade_reward_numerator |-> 0, trade_reward_denominator |-> 0,
                    trade_reward_cap |-> 0 ],
      pool_state |-> PoolStateNew(0, 0, 0),
      token_a_decimals |-> 0,
      token_b_decimals |-> 0,
      swap_out_limit_percentage |-> 0,
      oracle_priority_flags |-> 0,
      serum_combined_address |-> <<>>,
      admin_fee_key_a |-> "zero",
      admin_fee_key_b |-> "zero" ]

\* processor::check_pyth_accounts: owner, magic, version, type and the
\* product's price-account link, summed up in the account's `product_ok`.
check_pyth_accounts(p) == IF p.product_ok THEN OK ELSE "InvalidPythConfig"

----------------------------------------------------------------------------
(* Instruction handlers.  `acc` bundles the account buffers                *)
(* [swap, config, ledger, farm]; `slot` is the Clock sysvar; `o` holds the *)
(* oracle accounts passed by the caller:                                   *)
(*   [pyth_a_key, pyth_b_key, pyth_a, pyth_b, serum_keys, book].           *)

\* An Initialize that keeps whatever the oracle resolution returned.
initial_market_price_no_fallback(mp, mid_price, slot) == [price |-> mp.price, slot |-> mp.slot]

\* process_initialize: the oracle's price and slot, or the caller's mid_price
\* and the current slot when the oracle cannot be resolved.
initial_market_price(mp, mid_price, slot) ==
    IF mp.err = OK THEN [price |-> mp.price, slot |-> mp.slot]
    ELSE [price |-> mid_price, slot |-> slot]

\* The spl-token accounts by address: the owner and the mint of each.  The
\* swap authority owns the pool's reserves poolA and poolB.
TokenAccounts ==
    [ poolA |-> [owner |-> "authority", mint |-> "A"],
      poolB |-> [owner |-> "authority", mint |-> "B"],
      adminA |-> [owner |-> "admin", mint |-> "A"],
      adminB |-> [owner |-> "admin", mint |-> "B"],
      userA |-> [owner |-> "user", mint |-> "A"],
      userB |-> [owner |-> "user", mint |-> "B"],
      vaultA |-> [owner |-> "authority", mint |-> "A"],
      vaultC |-> [owner |-> "authority", mint |-> "C"] ]

\* process_initialize: the admin fee accounts are not the swap authority's
\* and hold the mints of the two reserves.
validate_admin_fee_accounts(admin_fee_a, admin_fee_b) ==
    IF TokenAccounts[admin_fee_a].owner = "authority" THEN "InvalidOutputOwner"
    ELSE IF TokenAccounts[admin_fee_b].owner = "authority" THEN "InvalidOutputOwner"
    ELSE IF TokenAccounts[admin_fee_a].mint # TokenAccounts["poolA"].mint THEN "InvalidAdmin"
    ELSE IF TokenAccounts[admin_fee_b].mint # TokenAccounts["poolB"].mint THEN "InvalidAdmin"
    ELSE OK

\* An account check that lets an initialized account through.
assert_uninitialized_skipped(sw) == OK

\* processor::assert_uninitialized
assert_uninitialized(sw) == IF sw.is_initialized THEN "AlreadyInUse" ELSE OK

process_initialize(acc, slot, d, o) ==
    LET flags == from_bits_truncate(d.oracle_priority_flags)
        adm == is_admin(acc.config.admin_key, d.admin)
        oracle == IF flags = PYTH_ONLY
                  THEN IF check_pyth_accounts(o.pyth_a) # OK THEN check_pyth_accounts(o.pyth_a)
                       ELSE check_pyth_accounts(o.pyth_b)
                  ELSE IF flags = SERUM_ONLY
                  THEN IF ~o.book.owner_ok THEN "InvalidSerumProgramId"
                       ELSE validate_serum_market_mint_address(o.book)
                  ELSE "UnsupportedOraclePriority"
        mp == get_market_price(d.oracle_priority_flags, o.pyth_a, o.pyth_b, slot, o.book,
                               d.token_a_decimals, d.token_b_decimals)
        market_price == initial_market_price(mp, d.mid_price, slot).price
        valid_slot == initial_market_price(mp, d.mid_price, slot).slot
        ps0 == PoolStateNew(market_price, d.slope, Min(slot, valid_slot))
        ps1 == set_market_price(ps0, d.token_a_decimals, d.token_b_decimals, market_price)
        bought == buy_shares(ps1.ps, acc.ledger.poolA, acc.ledger.poolB)
        packed == [SwapInfoDefault EXCEPT
                     !.is_initialized = TRUE,
                     !.is_paused = FALSE,
                     !.swap_type = "Normal",
                     !.pyth_a = IF flags = PYTH_ONLY THEN o.pyth_a_key ELSE "zero",
                     !.pyth_b = IF flags = PYTH_ONLY THEN o.pyth_b_key ELSE "zero",
                     !.fees = acc.config.fees,
                     !.rewards = acc.config.rewards,
                     !.pool_state = bought.ps,
                     !.token_a_decimals = d.token_a_decimals,
                     !.token_b_decimals = d.token_b_decimals,
                     !.oracle_priority_flags = d.oracle_priority_flags,
                     !.serum_combined_address =
                         IF flags = SERUM_ONLY THEN SerumFingerprint(o.serum_keys) ELSE <<>>,
                     !.admin_fee_key_a = d.admin_fee_a,
                     !.admin_fee_key_b = d.admin_fee_b]
        minted == token_mint_to(CpiStart(acc.ledger), "userLP", bought.mint)
        calc == [kind |-> "initialize", oracle_err |-> mp.err, mid_price |-> d.mid_price,
                 mint_amount |-> bought.mint]
    IN  IF adm # OK THEN Fail(acc, adm)
        ELSE IF oracle # OK THEN Fail(acc, oracle)
        ELSE IF assert_uninitialized(acc.swap) # OK THEN Fail(acc, assert_uninitialized(acc.swap))
        ELSE IF validate_admin_fee_accounts(d.admin_fee_a, d.admin_fee_b) # OK
             THEN Fail(acc, validate_admin_fee_accounts(d.admin_fee_a, d.admin_fee_b))
        ELSE IF acc.ledger.poolA # d.token_a_amount \/ acc.ledger.poolB # d.token_b_amount
             THEN Fail(acc, "InconsistentInitialPoolTokenBalance")
        ELSE IF acc.ledger.supply # 0 THEN Fail(acc, "InvalidSupply")
        ELSE IF d.slope > DecOne THEN Fail(acc, "InvalidSlope")
        ELSE IF ps1.err # OK THEN FailCalc(acc, ps1.err, calc)
        ELSE IF bought.err # OK THEN FailCalc(acc, bought.err, calc)
        ELSE IF bought.base # acc.ledger.poolA \/ bought.quote # acc.ledger.poolB
             THEN FailCalc(acc, "CalculationFailure", calc)
        ELSE IF check_reserve_amount(bought.ps, acc.ledger.poolA, acc.ledger.poolB) # OK
             THEN FailCalc(acc, check_reserve_amount(bought.ps, acc.ledger.poolA, acc.ledger.poolB),
                           calc)
        ELSE [err |-> minted.err,
              acc |-> [acc EXCEPT !.swap = packed, !.ledger = minted.led],
              xfers |-> minted.n,
              calc |-> calc]

\* A slippage test that also rejects an output equal to the minimum.
exceeds_slippage_inclusive(amount_out, minimum_amount_out) == amount_out <= minimum_amount_out

\* The slippage test of the swap handlers.
exceeds_slippage(amount_out, minimum_amount_out) == amount_out < minimum_amount_out

\* A swap handler that does not re-read the pool's token accounts.
swap_skip_reserve_check(ps, led, dir) == OK

\* The reserve check that ends the swap handlers: the pool's two token
\* accounts are re-read and passed as (base, quote) whatever the direction.
swap_check_reserve_amount(ps, led, dir) ==
    IF dir = SellBase
    THEN check_reserve_amount(ps, led.poolA, led.poolB)
    ELSE check_reserve_amount(ps, led.poolA, led.poolB)

\* lib.rs: the referrer that stands for "referred by nobody".
DUMMY_REFERRER_ADDRESS == "66666666666666666666666666666666666666666666"

\* utils::get_referrer_data_pubkey: the address derived from the trader and
\* the config, modelled as the pair itself (collision free).
get_referrer_data_pubkey(owner, config_key) == <<owner, config_key>>

\* The trailing accounts of a swap instruction: none.
NoReferral ==
    [ supplied |-> FALSE, token_supplied |-> FALSE, data_key |-> <<>>,
      data |-> [is_initialized |-> FALSE, referrer |-> "", config_key |-> ""],
      token_key |-> "" ]

\* The trailing accounts of a swap instruction: the trader's referral record
\* naming `referrer`, followed by the token account `token_key`.
ReferralAccounts(referrer, token_key) ==
    [ supplied |-> TRUE, token_supplied |-> TRUE,
      data_key |-> get_referrer_data_pubkey("user", "config"),
      data |-> [is_initialized |-> TRUE, referrer |-> referrer, config_key |-> "config"],
      token_key |-> token_key ]

\* The checks of the "Handle referral reward" block of a swap handler.
validate_referral(referral) ==
    IF ~referral.supplied THEN OK
    ELSE IF ~referral.token_supplied THEN "NotEnoughAccountKeys"
    ELSE IF get_referrer_data_pubkey("user", "config") # referral.data_key
         THEN "InvalidAccountOwner"
    ELSE IF ~referral.data.is_initialized THEN "UninitializedAccount"
    ELSE IF referral.data.referrer # referral.token_key \/ referral.data.config_key # "config"
         THEN "InvalidAccountOwner"
    ELSE OK

\* A referral block that pays whoever owns the supplied token account.
pays_referrer_unchecked(referral) == referral.supplied /\ referral.token_supplied

\* The referral reward is transferred: a record was supplied, passed the
\* checks and names a referrer other than the placeholder.
pays_referrer(referral) ==
    /\ referral.supplied
    /\ validate_referral(referral) = OK
    /\ referral.data.referrer # DUMMY_REFERRER_ADDRESS

\* The token accounts offered as the referrer's: [owner, mint].
ReferrerTokenAccounts ==
    [ referrerReward |-> [owner |-> "referrer", mint |-> "deltafi_mint"],
      userReward |-> [owner |-> "user", mint |-> "deltafi_mint"],
      referrerA |-> [owner |-> "referrer", mint |-> "A"] ]

\* state::UserReferrerData before SetReferrer
UserReferrerDataDefault ==
    [is_initialized |-> FALSE, config_key |-> "", owner |-> "", referrer |-> ""]

\* processor::process_set_referrer.  `c` is the instruction's accounts:
\* config_key, owner [key, is_signer], user_referrer_key, referrer_token_key,
\* whether the record and the config are owned by the program, and whether
\* the record is rent exempt; acc.ledger holds the referrer records by address.
process_set_referrer(acc, c) ==
    LET referrer_token == ReferrerTokenAccounts[c.referrer_token_key]
        user_referrer_data == acc.ledger[c.user_referrer_key]
        packed == [ is_initialized |-> TRUE, config_key |-> c.config_key,
                    owner |-> c.owner.key, referrer |-> c.referrer_token_key ]
    IN  IF ~c.program_owned THEN Fail(acc, "InvalidAccountOwner")
        ELSE IF get_referrer_data_pubkey(c.owner.key, c.config_key) # c.user_referrer_key
             THEN Fail(acc, "InvalidAccountOwner")
        ELSE IF c.referrer_token_key # DUMMY_REFERRER_ADDRESS
                /\ referrer_token.mint # "deltafi_mint"
             THEN Fail(acc, "ExpectedMint")
        ELSE IF c.referrer_token_key # DUMMY_REFERRER_ADDRESS
                /\ referrer_token.owner = c.owner.key
             THEN Fail(acc, "InvalidAccountOwner")
        ELSE IF ~c.rent_exempt THEN Fail(acc, "NotRentExempt")
        ELSE IF assert_uninitialized(user_referrer_data) # OK
             THEN Fail(acc, assert_uninitialized(user_referrer_data))
        ELSE IF ~c.owner.is_signer THEN Fail(acc, "InvalidSigner")
        ELSE [err |-> OK, acc |-> [acc EXCEPT !.ledger[c.user_referrer_key] = packed],
              xfers |-> 0, calc |-> NoCalc]

\* A reward that is always computed on the amount paid in.
reward_basis_amount_in(dir, amount_in, amount_out) == amount_in

\* The amount the trade reward is computed on.
reward_basis(dir, amount_in, amount_out) == IF dir = SellBase THEN amount_in ELSE amount_out

\* The part common to the four swap handlers, from the quote to the final
\* SwapInfo::pack; `sw` is the unpacked pool with its market price already
\* set, `oracle` the price and slot the handler obtained, `referral` the
\* trailing accounts.
swap_tokens(acc, sw, oracle, amount_in, minimum_amount_out, dir, referral) ==
    LET quote == get_out_amount(sw.pool_state, amount_in, dir)
        receive_amount == quote.out
        fee == trade_fee(sw.fees, receive_amount)
        admin_fee == IF fee < 0 THEN -1 ELSE admin_trade_fee(sw.fees, fee)
        amount_out == receive_amount - fee
        limit == check_swap_out_amount(sw, amount_out, dir)
        reward == trade_reward_u64(sw.rewards, reward_basis(dir, amount_in, amount_out))
        swapped == PoolSwap(sw.pool_state, amount_in, amount_out + admin_fee, dir)
        src == IF dir = SellBase THEN "A" ELSE "B"
        dst == IF dir = SellBase THEN "B" ELSE "A"
        t1 == token_transfer(CpiStart(acc.ledger), "user" \o src, "pool" \o src, amount_in)
        t2 == token_transfer(t1, "pool" \o dst, "user" \o dst, amount_out)
        t3 == token_transfer(t2, "pool" \o dst, "admin" \o dst, admin_fee)
        t4 == token_transfer(t3, "rewardSrc", "userReward", reward)
        reserves == swap_check_reserve_amount(swapped.ps, t4.led, dir)
        referrer_reward == referral_reward(sw.rewards, reward)
        t5 == IF pays_referrer(referral)
              THEN token_transfer(t4, "rewardSrc", "referrerReward", referrer_reward)
              ELSE t4
        calc == [kind |-> "swap", oracle_price |-> oracle.price, oracle_slot |-> oracle.slot,
                 amount_in |-> amount_in,
                 minimum_amount_out |-> minimum_amount_out, direction |-> dir,
                 receive_amount |-> receive_amount, trade_fee |-> fee,
                 admin_fee |-> admin_fee, amount_out |-> amount_out,
                 limit |-> limit, amount_to_reward |-> reward,
                 referral_reward |-> IF pays_referrer(referral) THEN referrer_reward ELSE 0]
    IN  IF quote.err # OK THEN Fail(acc, quote.err)
        ELSE IF fee < 0 \/ admin_fee < 0 \/ amount_out < 0 THEN Fail(acc, "CalculationFailure")
        ELSE IF limit # OK THEN FailCalc(acc, limit, calc)
        ELSE IF exceeds_slippage(amount_out, minimum_amount_out)
             THEN FailCalc(acc, "ExceededSlippage", calc)
        ELSE IF reward < 0 THEN FailCalc(acc, "CalculationFailure", calc)
        ELSE IF swapped.err # OK THEN FailCalc(acc, swapped.err, calc)
        ELSE IF t4.err # OK
             THEN [err |-> t4.err, acc |-> [acc EXCEPT !.ledger = t4.led],
                   xfers |-> t4.n, calc |-> calc]
        ELSE IF reserves # OK
             THEN [err |-> reserves, acc |-> [acc EXCEPT !.ledger = t4.led],
                   xfers |-> t4.n, calc |-> calc]
        ELSE IF validate_referral(referral) # OK
             THEN [err |-> validate_referral(referral), acc |-> [acc EXCEPT !.ledger = t4.led],
                   xfers |-> t4.n, calc |-> calc]
        ELSE IF pays_referrer(referral) /\ referrer_reward < 0
             THEN [err |-> "CalculationFailure", acc |-> [acc EXCEPT !.ledger = t4.led],
                   xfers |-> t4.n, calc |-> calc]
        ELSE IF t5.err # OK
             THEN [err |-> t5.err, acc |-> [acc EXCEPT !.ledger = t5.led],
                   xfers |-> t5.n, calc |-> calc]
        ELSE [err |-> OK,
              acc |-> [acc EXCEPT !.swap = [sw EXCEPT !.pool_state = swapped.ps],
                                  !.ledger = t5.led],
              xfers |-> t5.n, calc |-> calc]

process_swap(acc, slot, amount_in, minimum_amount_out, dir, o) ==
    LET sw == acc.swap
        mp == get_market_price_from_pyth(o.pyth_a, o.pyth_b, slot)
        upd == check_and_update_market_price_and_slot(sw.pool_state, mp.price, mp.slot)
        set == set_market_price(upd.ps, MintDecimals.a, MintDecimals.b, mp.price)
    IN  IF ~sw.is_initialized THEN Fail(acc, "UninitializedAccount")
        ELSE IF sw.swap_type # "Normal" THEN Fail(acc, "IncorrectSwapType")
        ELSE IF sw.is_paused THEN Fail(acc, "IsPaused")
        ELSE IF sw.pyth_a # o.pyth_a_key \/ sw.pyth_b # o.pyth_b_key THEN Fail(acc, "InvalidInput")
        ELSE IF mp.err # OK THEN Fail(acc, mp.err)
        ELSE IF upd.err # OK THEN Fail(acc, upd.err)
        ELSE IF set.err # OK THEN Fail(acc, set.err)
        ELSE swap_tokens(acc, [sw EXCEPT !.pool_state = set.ps], mp,
                         amount_in, minimum_amount_out, dir, o.referral)

process_swap_v2(acc, slot, amount_in, minimum_amount_out, dir, o) ==
    LET sw == acc.swap
        serum == IF is_pyth_only(sw.oracle_priority_flags) THEN OK
                 ELSE IF check_serum_accounts(o.book, o.serum_keys, sw.serum_combined_address) # OK
                      THEN check_serum_accounts(o.book, o.serum_keys, sw.serum_combined_address)
                      ELSE validate_serum_market_mint_address(o.book)
        mp == get_market_price(sw.oracle_priority_flags, o.pyth_a, o.pyth_b, slot, o.book,
                               sw.token_a_decimals, sw.token_b_decimals)
        upd == check_and_update_market_price_and_slot(sw.pool_state, mp.price, mp.slot)
        set == set_market_price(upd.ps, sw.token_a_decimals, sw.token_b_decimals, mp.price)
    IN  IF ~sw.is_initialized THEN Fail(acc, "UninitializedAccount")
        ELSE IF sw.swap_type # "Normal" THEN Fail(acc, "IncorrectSwapType")
        ELSE IF sw.is_paused THEN Fail(acc, "IsPaused")
        ELSE IF sw.pyth_a # o.pyth_a_key \/ sw.pyth_b # o.pyth_b_key THEN Fail(acc, "InvalidInput")
        ELSE IF serum # OK THEN Fail(acc, serum)
        ELSE IF mp.err # OK THEN Fail(acc, mp.err)
        ELSE IF upd.err # OK THEN Fail(acc, upd.err)
        ELSE IF set.err # OK THEN Fail(acc, set.err)
        ELSE swap_tokens(acc, [sw EXCEPT !.pool_state = set.ps], mp,
                         amount_in, minimum_amount_out, dir, o.referral)

process_stable_initialize(acc, d) ==
    LET adm == is_admin(acc.config.admin_key, d.admin)
        ps0 == PoolStateNew(DecOne, d.slope, 0)
        ps1 == set_market_price(ps0, d.token_a_decimals, d.token_b_decimals, DecOne)
        bought == buy_shares(ps1.ps, acc.ledger.poolA, acc.ledger.poolB)
        packed == [SwapInfoDefault EXCEPT
                     !.is_initialized = TRUE,
                     !.is_paused = FALSE,
                     !.swap_type = "Stable",
                     !.fees = acc.config.fees,
                     !.rewards = acc.config.rewards,
                     !.pool_state = bought.ps,
                     !.token_a_decimals = d.token_a_decimals,
                     !.token_b_decimals = d.token_b_decimals,
                     !.admin_fee_key_a = d.admin_fee_a,
                     !.admin_fee_key_b = d.admin_fee_b]
        minted == token_mint_to(CpiStart(acc.ledger), "userLP", bought.mint)
        calc == [kind |-> "stable_initialize", oracle_err |-> OK, mid_price |-> DecOne,
                 mint_amount |-> bought.mint]
    IN  IF assert_uninitialized(acc.swap) # OK THEN Fail(acc, assert_uninitialized(acc.swap))
        ELSE IF adm # OK THEN Fail(acc, adm)
        ELSE IF validate_admin_fee_accounts(d.admin_fee_a, d.admin_fee_b) # OK
             THEN Fail(acc, validate_admin_fee_accounts(d.admin_fee_a, d.admin_fee_b))
        ELSE IF acc.ledger.poolA # d.token_a_amount \/ acc.ledger.poolB # d.token_b_amount
             THEN Fail(acc, "InconsistentInitialPoolTokenBalance")
        ELSE IF acc.ledger.supply # 0 THEN Fail(acc, "InvalidSupply")
        ELSE IF ps1.err # OK THEN FailCalc(acc, ps1.err, calc)
        ELSE IF bought.err # OK THEN FailCalc(acc, bought.err, calc)
        ELSE IF bought.base # acc.ledger.poolA \/ bought.quote # acc.ledger.poolB
             THEN FailCalc(acc, "CalculationFailure", calc)
        ELSE IF check_reserve_amount(bought.ps, acc.ledger.poolA, acc.ledger.poolB) # OK
             THEN FailCalc(acc, check_reserve_amount(bought.ps, acc.ledger.poolA, acc.ledger.poolB),
                           calc)
        ELSE [err |-> minted.err,
              acc |-> [acc EXCEPT !.swap = packed, !.ledger = minted.led],
              xfers |-> minted.n,
              calc |-> calc]

process_stable_swap(acc, amount_in, minimum_amount_out, dir, referral) ==
    LET sw == acc.swap
        set == set_market_price(sw.pool_state, MintDecimals.a, MintDecimals.b, DecOne)
    IN  IF ~sw.is_initialized THEN Fail(acc, "UninitializedAccount")
        ELSE IF sw.swap_type # "Stable" THEN Fail(acc, "IncorrectSwapType")
        ELSE IF sw.is_paused THEN Fail(acc, "IsPaused")
        ELSE IF set.err # OK THEN Fail(acc, set.err)
        ELSE swap_tokens(acc, [sw EXCEPT !.pool_state = set.ps],
                         [price |-> DecOne, slot |-> sw.pool_state.last_valid_market_price_slot],
                         amount_in, minimum_amount_out, dir, referral)

process_stable_swap_v2(acc, amount_in, minimum_amount_out, dir, referral) ==
    LET sw == acc.swap
        set == set_market_price(sw.pool_state, sw.token_a_decimals, sw.token_b_decimals, DecOne)
    IN  IF ~sw.is_initialized THEN Fail(acc, "UninitializedAccount")
        ELSE IF sw.swap_type # "Stable" THEN Fail(acc, "IncorrectSwapType")
        ELSE IF sw.is_paused THEN Fail(acc, "IsPaused")
        ELSE IF set.err # OK THEN Fail(acc, set.err)
        ELSE swap_tokens(acc, [sw EXCEPT !.pool_state = set.ps],
                         [price |-> DecOne, slot |-> sw.pool_state.last_valid_market_price_slot],
                         amount_in, minimum_amount_out, dir, referral)

\* A deposit that accepts any number of shares.
mints_too_few_ignored(pool_mint_amount, min_mint_amount) == FALSE

\* process_deposit: pool_mint_amount < min_mint_amount
mints_too_few(pool_mint_amount, min_mint_amount) == pool_mint_amount < min_mint_amount

process_deposit(acc, token_a_amount, token_b_amount, min_mint_amount, swap_type) ==
    LET sw == acc.swap
        bought == buy_shares(sw.pool_state, token_a_amount, token_b_amount)
        t1 == token_transfer(CpiStart(acc.ledger), "userA", "poolA", bought.base)
        t2 == token_transfer(t1, "userB", "poolB", bought.quote)
        t3 == token_mint_to(t2, "userLP", bought.mint)
        reserves == check_reserve_amount(bought.ps, t3.led.poolA, t3.led.poolB)
        supply == check_mint_supply(bought.ps, t3.led.supply)
        calc == [kind |-> "deposit", token_a_amount |-> token_a_amount,
                 token_b_amount |-> token_b_amount, min_mint_amount |-> min_mint_amount,
                 pool_mint_amount |-> bought.mint, token_a_output |-> bought.base,
                 token_b_output |-> bought.quote]
        partial(e) == [err |-> e, acc |-> [acc EXCEPT !.ledger = t3.led],
                       xfers |-> t3.n, calc |-> calc]
    IN  IF ~sw.is_initialized THEN Fail(acc, "UninitializedAccount")
        ELSE IF sw.swap_type # swap_type THEN Fail(acc, "IncorrectSwapType")
        ELSE IF sw.is_paused THEN Fail(acc, "IsPaused")
        ELSE IF bought.err # OK THEN Fail(acc, bought.err)
        ELSE IF mints_too_few(bought.mint, min_mint_amount)
             THEN FailCalc(acc, "ExceededSlippage", calc)
        ELSE IF t3.err # OK THEN partial(t3.err)
        ELSE IF reserves # OK THEN partial(reserves)
        ELSE IF supply # OK THEN partial(supply)
        ELSE [err |-> OK,
              acc |-> [acc EXCEPT !.swap = [sw EXCEPT !.pool_state = bought.ps],
                                  !.ledger = t3.led],
              xfers |-> t3.n, calc |-> calc]

\* u64 subtraction with the `-` operator in a build without overflow checks.
wrapping_sub(a, b) == (a - b) % (U64_MAX + 1)

\* A build of the program: with or without overflow checks.
OverflowChecks == BOOLEAN

process_withdraw(acc, pool_token_amount, minimum_token_a_amount, minimum_token_b_amount, swap_type, overflow_checks) ==
    LET sw == acc.swap
        sold == sell_shares(sw.pool_state, pool_token_amount,
                            minimum_token_a_amount, minimum_token_b_amount)
        withdraw_fee_base == withdraw_fee(sw.fees, sold.base)
        admin_fee_base == IF withdraw_fee_base < 0 THEN -1
                          ELSE admin_withdraw_fee(sw.fees, withdraw_fee_base)
        base_out_amount == sold.base - withdraw_fee_base
        withdraw_fee_quote == withdraw_fee(sw.fees, sold.quote)
        admin_fee_quote == IF withdraw_fee_quote < 0 THEN -1
                           ELSE admin_withdraw_fee(sw.fees, withdraw_fee_quote)
        quote_out_amount == sold.quote - withdraw_fee_quote
        collected == collect_trade_fee(sold.ps, wrapping_sub(withdraw_fee_base, admin_fee_base),
                                       wrapping_sub(withdraw_fee_quote, admin_fee_quote))
        t1 == token_transfer(CpiStart(acc.ledger), "poolA", "userA", base_out_amount)
        t2 == token_transfer(t1, "poolA", "adminA", admin_fee_base)
        t3 == token_transfer(t2, "poolB", "userB", quote_out_amount)
        t4 == token_transfer(t3, "poolB", "adminB", admin_fee_quote)
        t5 == token_burn(t4, "userLP", pool_token_amount)
        reserves == check_reserve_amount(collected.ps, t5.led.poolA, t5.led.poolB)
        supply == check_mint_supply(collected.ps, t5.led.supply)
        calc == [kind |-> "withdraw", pool_token_amount |-> pool_token_amount,
                 minimum_token_a_amount |-> minimum_token_a_amount,
                 minimum_token_b_amount |-> minimum_token_b_amount,
                 base_out_amount |-> base_out_amount, quote_out_amount |-> quote_out_amount,
                 withdraw_fee_base |-> withdraw_fee_base,
                 withdraw_fee_quote |-> withdraw_fee_quote,
                 admin_fee_base |-> admin_fee_base, admin_fee_quote |-> admin_fee_quote]
        partial(e) == [err |-> e, acc |-> [acc EXCEPT !.ledger = t5.led],
                       xfers |-> t5.n, calc |-> calc]
    IN  IF ~sw.is_initialized THEN Fail(acc, "UninitializedAccount")
        ELSE IF sw.swap_type # swap_type THEN Fail(acc, "InvalidAccount")
        ELSE IF acc.ledger.supply = 0 THEN Fail(acc, "EmptySupply")
        ELSE IF sold.err # OK THEN Fail(acc, sold.err)
        ELSE IF withdraw_fee_base < 0 \/ admin_fee_base < 0 \/ base_out_amount < 0
                \/ withdraw_fee_quote < 0 \/ admin_fee_quote < 0 \/ quote_out_amount < 0
             THEN Fail(acc, "CalculationFailure")
        ELSE IF /\ overflow_checks
                /\ (withdraw_fee_base < admin_fee_base \/ withdraw_fee_quote < admin_fee_quote)
             THEN Fail(acc, "Panic")
        ELSE IF collected.err # OK THEN Fail(acc, collected.err)
        ELSE IF t5.err # OK THEN partial(t5.err)
        ELSE IF reserves # OK THEN partial(reserves)
        ELSE IF supply # OK THEN partial(supply)
        ELSE [err |-> OK,
              acc |-> [acc EXCEPT !.swap = [sw EXCEPT !.pool_state = collected.ps],
                                  !.ledger = t5.led],
              xfers |-> t5.n, calc |-> calc]

----------------------------------------------------------------------------
(* Admin instructions (admin.rs) *)

pause(acc, admin) ==
    IF is_admin(acc.config.admin_key, admin) # OK
    THEN Fail(acc, is_admin(acc.config.admin_key, admin))
    ELSE IF ~acc.swap.is_initialized THEN Fail(acc, "UninitializedAccount")
    ELSE [err |-> OK, acc |-> [acc EXCEPT !.swap.is_paused = TRUE],
          xfers |-> 0, calc |-> NoCalc]

unpause(acc, admin) ==
    IF is_admin(acc.config.admin_key, admin) # OK
    THEN Fail(acc, is_admin(acc.config.admin_key, admin))
    ELSE IF ~acc.swap.is_initialized THEN Fail(acc, "UninitializedAccount")
    ELSE [err |-> OK, acc |-> [acc EXCEPT !.swap.is_paused = FALSE],
          xfers |-> 0, calc |-> NoCalc]

set_swap_limit(acc, swap_out_limit_percentage, admin) ==
    IF is_admin(acc.config.admin_key, admin) # OK
    THEN Fail(acc, is_admin(acc.config.admin_key, admin))
    ELSE IF ~acc.swap.is_initialized THEN Fail(acc, "UninitializedAccount")
    ELSE [err |-> OK,
          acc |-> [acc EXCEPT !.swap.swap_out_limit_percentage = swap_out_limit_percentage],
          xfers |-> 0, calc |-> NoCalc]

set_slope(acc, slope, admin) ==
    IF is_admin(acc.config.admin_key, admin) # OK
    THEN Fail(acc, is_admin(acc.config.admin_key, admin))
    ELSE IF ~acc.swap.is_initialized THEN Fail(acc, "UninitializedAccount")
    ELSE [err |-> OK, acc |-> [acc EXCEPT !.swap.pool_state.slope = slope],
          xfers |-> 0, calc |-> NoCalc]

set_new_fees(acc, new_fees, admin) ==
    IF is_admin(acc.config.admin_key, admin) # OK
    THEN Fail(acc, is_admin(acc.config.admin_key, admin))
    ELSE IF ~acc.swap.is_initialized THEN Fail(acc, "UninitializedAccount")
    ELSE [err |-> OK, acc |-> [acc EXCEPT !.swap.fees = new_fees],
          xfers |-> 0, calc |-> NoCalc]

\* admin::set_fee_account: `authority` is the key passed as the swap authority,
\* `new_fee_account` the address of the token account passed.
set_fee_account(acc, authority, new_fee_account, admin) ==
    IF is_admin(acc.config.admin_key, admin) # OK
    THEN Fail(acc, is_admin(acc.config.admin_key, admin))
    ELSE IF ~acc.swap.is_initialized THEN Fail(acc, "UninitializedAccount")
    ELSE IF authority # "authority" THEN Fail(acc, "InvalidProgramAddress")
    ELSE IF authority # TokenAccounts[new_fee_account].owner THEN Fail(acc, "InvalidOwner")
    ELSE IF TokenAccounts[new_fee_account].mint = TokenAccounts["poolA"].mint
    THEN [err |-> OK, acc |-> [acc EXCEPT !.swap.admin_fee_key_a = new_fee_account],
          xfers |-> 0, calc |-> NoCalc]
    ELSE IF TokenAccounts[new_fee_account].mint = TokenAccounts["poolB"].mint
    THEN [err |-> OK, acc |-> [acc EXCEPT !.swap.admin_fee_key_b = new_fee_account],
          xfers |-> 0, calc |-> NoCalc]
    ELSE Fail(acc, "IncorrectMint")

\* A hand-over that waits for a second call: the key is left as it is.
commit_new_admin_pending(acc, new_admin_key, mint, admin) ==
    IF is_admin(acc.config.admin_key, admin) # OK
    THEN Fail(acc, is_admin(acc.config.admin_key, admin))
    ELSE [err |-> OK, acc |-> acc, xfers |-> 0,
          calc |-> [kind |-> "commit_new_admin", previous_admin_key |-> acc.config.admin_key,
                    new_admin_key |-> new_admin_key]]

\* admin::commit_new_admin: `mint` is the mint account passed, [key,
\* freeze_authority]; the token program's set_authority fails unless the
\* signing admin is the mint's freeze authority, and the instruction with it.
commit_new_admin(acc, new_admin_key, mint, admin) ==
    IF is_admin(acc.config.admin_key, admin) # OK
    THEN Fail(acc, is_admin(acc.config.admin_key, admin))
    ELSE IF mint.key # "deltafi_mint" THEN Fail(acc, "IncorrectMint")
    ELSE IF mint.freeze_authority # admin.key
    THEN [err |-> "OwnerMismatch", acc |-> [acc EXCEPT !.config.admin_key = new_admin_key],
          xfers |-> 0, calc |-> NoCalc]
    ELSE [err |-> OK, acc |-> [acc EXCEPT !.config.admin_key = new_admin_key],
          xfers |-> 1,
          calc |-> [kind |-> "commit_new_admin", previous_admin_key |-> acc.config.admin_key,
                    new_admin_key |-> new_admin_key]]

\* admin::set_new_rewards
set_new_rewards(acc, new_rewards, admin) ==
    IF is_admin(acc.config.admin_key, admin) # OK
    THEN Fail(acc, is_admin(acc.config.admin_key, admin))
    ELSE IF ~acc.swap.is_initialized THEN Fail(acc, "UninitializedAccount")
    ELSE IF new_rewards.decimals > 10 THEN Fail(acc, "InvalidTokenDecimals")
    ELSE [err |-> OK,
          acc |-> [acc EXCEPT !.swap.rewards =
                      [ trade_reward_numerator |-> new_rewards.trade_reward_numerator,
                        trade_reward_denominator |-> new_rewards.trade_reward_denominator,
                        trade_reward_cap |-> new_rewards.trade_reward_cap ]],
          xfers |-> 0, calc |-> NoCalc]

\* admin::set_farm_rewards
set_farm_rewards(acc, farm_rewards, admin) ==
    IF is_admin(acc.config.admin_key, admin) # OK
    THEN Fail(acc, is_admin(acc.config.admin_key, admin))
    ELSE [err |-> OK,
          acc |-> [acc EXCEPT !.farm.info.apr_numerator = farm_rewards.apr_numerator,
                              !.farm.info.apr_denominator = farm_rewards.apr_denominator],
          xfers |-> 0, calc |-> NoCalc]

\* admin::set_decimals
set_decimals(acc, token_a_decimals, token_b_decimals, admin) ==
    IF is_admin(acc.config.admin_key, admin) # OK
    THEN Fail(acc, is_admin(acc.config.admin_key, admin))
    ELSE IF ~acc.swap.is_initialized THEN Fail(acc, "UninitializedAccount")
    ELSE [err |-> OK,
          acc |-> [acc EXCEPT !.swap.token_a_decimals = token_a_decimals,
                              !.swap.token_b_decimals = token_b_decimals],
          xfers |-> 0, calc |-> NoCalc]

\* admin::process_admin_instruction with the check every handler begins with:
\* the config account and the pool account (the farm pool for SetFarmRewards)
\* are owned by the program.  `ix` is the decoded instruction [name, arg], `a`
\* the accounts [program_owned, admin].
process_admin_instruction(acc, ix, a) ==
    IF ~a.program_owned THEN Fail(acc, "InvalidAccountOwner")
    ELSE CASE ix.name = "pause" -> pause(acc, a.admin)
           [] ix.name = "unpause" -> unpause(acc, a.admin)
           [] ix.name = "set_fee_account" ->
                  set_fee_account(acc, ix.arg.authority, ix.arg.new_fee_account, a.admin)
           [] ix.name = "commit_new_admin" ->
                  commit_new_admin(acc, ix.arg.new_admin_key, ix.arg.mint, a.admin)
           [] ix.name = "set_new_fees" -> set_new_fees(acc, ix.arg, a.admin)
           [] ix.name = "set_new_rewards" -> set_new_rewards(acc, ix.arg, a.admin)
           [] ix.name = "set_farm_rewards" -> set_farm_rewards(acc, ix.arg, a.admin)
           [] ix.name = "set_slope" -> set_slope(acc, ix.arg, a.admin)
           [] ix.name = "set_decimals" -> set_decimals(acc, ix.arg[1], ix.arg[2], a.admin)
           [] ix.name = "set_swap_limit" -> set_swap_limit(acc, ix.arg, a.admin)

----------------------------------------------------------------------------
(* Farm instructions.  state::FarmInfo and state::FarmUser are reduced to  *)
(* the staked-amount bookkeeping; reward accrual is left out of the state. *)

\* FarmPosition::deposit
position_deposit(position, amount, slot) ==
    [err |-> OK,
     position |-> [position EXCEPT !.deposited_amount = @ + amount,
                                   !.latest_deposit_slot = slot]]

\* FarmUser::withdraw, with the same-slot restriction
position_withdraw(position, amount, slot) ==
    IF slot <= position.latest_deposit_slot
    THEN [err |-> "FlashLoanAttack", position |-> position]
    ELSE IF amount > position.deposited_amount
    THEN [err |-> "InsufficientFunds", position |-> position]
    ELSE [err |-> OK, position |-> [position EXCEPT !.deposited_amount = @ - amount]]

\* FarmInfo::check_reserve_amount
farm_check_reserve_amount(info, balance) ==
    IF info.reserved_amount = balance THEN OK ELSE "InconsistentPoolState"

\* A deposit that moves the tokens and never packs the farm user.
process_farm_deposit_unpacked(acc, slot, amount, owner) ==
    LET info == [acc.farm.info EXCEPT !.reserved_amount = @ + amount]
        t1 == token_transfer(CpiStart(acc.ledger), "farmUser", "farmPool", amount)
        calc == [kind |-> "farm_deposit", amount |-> amount]
    IN  IF acc.farm.user.owner # owner.key THEN Fail(acc, "InvalidOwner")
        ELSE IF ~owner.is_signer THEN Fail(acc, "InvalidSigner")
        ELSE IF t1.err # OK THEN Fail(acc, t1.err)
        ELSE [err |-> OK, acc |-> [acc EXCEPT !.farm.info = info, !.ledger = t1.led],
              xfers |-> t1.n, calc |-> calc]

process_farm_deposit(acc, slot, amount, owner) ==
    LET dep == position_deposit(acc.farm.user.position, amount, slot)
        packed_user == [acc EXCEPT !.farm.user.position = dep.position]
        info == [acc.farm.info EXCEPT !.reserved_amount = @ + amount]
        t1 == token_transfer(CpiStart(acc.ledger), "farmUser", "farmPool", amount)
        reserves == farm_check_reserve_amount(info, t1.led.farmPool)
        calc == [kind |-> "farm_deposit", amount |-> amount]
        partial(e) == [err |-> e, acc |-> [packed_user EXCEPT !.ledger = t1.led],
                       xfers |-> t1.n, calc |-> calc]
    IN  IF acc.farm.user.owner # owner.key THEN Fail(acc, "InvalidOwner")
        ELSE IF ~owner.is_signer THEN Fail(acc, "InvalidSigner")
        ELSE IF dep.err # OK THEN Fail(acc, dep.err)
        ELSE IF t1.err # OK THEN partial(t1.err)
        ELSE IF reserves # OK THEN partial(reserves)
        ELSE [err |-> OK,
              acc |-> [packed_user EXCEPT !.farm.info = info, !.ledger = t1.led],
              xfers |-> t1.n, calc |-> calc]

\* A withdraw that takes the amount off the position in any slot.
process_farm_withdraw_any_slot(acc, slot, amount, owner) ==
    LET packed_user == [acc EXCEPT !.farm.user.position.deposited_amount = @ - amount]
        info == [acc.farm.info EXCEPT !.reserved_amount = @ - amount]
        t1 == token_transfer(CpiStart(acc.ledger), "farmPool", "farmUser", amount)
        calc == [kind |-> "farm_withdraw", amount |-> amount]
    IN  IF acc.farm.user.owner # owner.key THEN Fail(acc, "InvalidOwner")
        ELSE IF ~owner.is_signer THEN Fail(acc, "InvalidSigner")
        ELSE IF amount > acc.farm.user.position.deposited_amount
             THEN Fail(acc, "InsufficientFunds")
        ELSE IF t1.err # OK THEN Fail(acc, t1.err)
        ELSE [err |-> OK,
              acc |-> [packed_user EXCEPT !.farm.info = info, !.ledger = t1.led],
              xfers |-> t1.n, calc |-> calc]

process_farm_withdraw(acc, slot, amount, owner) ==
    LET wd == position_withdraw(acc.farm.user.position, amount, slot)
        packed_user == [acc EXCEPT !.farm.user.position = wd.position]
        info == [acc.farm.info EXCEPT !.reserved_amount = @ - amount]
        t1 == token_transfer(CpiStart(acc.ledger), "farmPool", "farmUser", amount)
        reserves == farm_check_reserve_amount(info, t1.led.farmPool)
        calc == [kind |-> "farm_withdraw", amount |-> amount]
        partial(e) == [err |-> e, acc |-> [packed_user EXCEPT !.ledger = t1.led],
                       xfers |-> t1.n, calc |-> calc]
    IN  IF acc.farm.user.owner # owner.key THEN Fail(acc, "InvalidOwner")
        ELSE IF ~owner.is_signer THEN Fail(acc, "InvalidSigner")
        ELSE IF wd.err # OK THEN Fail(acc, wd.err)
        ELSE IF info.reserved_amount < 0
             THEN [err |-> "CalculationFailure", acc |-> packed_user, xfers |-> 0, calc |-> calc]
        ELSE IF t1.err # OK THEN partial(t1.err)
        ELSE IF reserves # OK THEN partial(reserves)
        ELSE [err |-> OK,
              acc |-> [packed_user EXCEPT !.farm.info = info, !.ledger = t1.led],
              xfers |-> t1.n, calc |-> calc]

\* FarmInstruction::Refresh: the instruction is removed
process_farm_refresh(acc) == Fail(acc, "InvalidInstruction")

----------------------------------------------------------------------------
(* The ledger runtime: the account buffers of an instruction that returned *)
(* an error are discarded, those of a successful one are kept.             *)

\* A runtime that keeps whatever the handler wrote.
CommitAlways(acc, res) == res.acc

Commit(acc, res) == IF res.err = OK THEN res.acc ELSE acc

----------------------------------------------------------------------------
(* Inputs *)

Admin == [key |-> "admin", is_signer |-> TRUE]

Signers == {Admin, [key |-> "admin", is_signer |-> FALSE], [key |-> "user", is_signer |-> TRUE]}

PythPrice(price, valid_slot) ==
    [ ptype |-> "Price", status |-> "Trading", ncomp |-> MIN_ACTIVE_PUBLISHERS,
      valid_slot |-> valid_slot, price |-> price, conf |-> 2, prev_price |-> price + 1,
      expo |-> -2, product_ok |-> TRUE ]

NoPythAccount == [PythPrice(0, 0) EXCEPT !.ptype = "Unloadable", !.product_ok = FALSE]

SerumBook(bid, ask) ==
    [owner_ok |-> TRUE, mints_ok |-> TRUE, base_lot |-> 1, quote_lot |-> 1,
     bid |-> bid, ask |-> ask]

SerumKeys == <<"market", "bids", "asks">>

OracleAccounts(pyth_a, pyth_b) ==
    [ pyth_a_key |-> "pyth_a", pyth_b_key |-> "pyth_b", pyth_a |-> pyth_a, pyth_b |-> pyth_b,
      serum_keys |-> SerumKeys, book |-> SerumBook(1, 1), referral |-> NoReferral ]

SerumAccounts(keys, book) ==
    [ pyth_a_key |-> "zero", pyth_b_key |-> "zero", pyth_a |-> NoPythAccount,
      pyth_b |-> NoPythAccount, serum_keys |-> keys, book |-> book,
      referral |-> NoReferral ]

\* Pyth account pairs whose prices pass every check at `slot`.
GoodPythAccounts(slot) ==
    { OracleAccounts(PythPrice(100, slot), PythPrice(100, slot)),
      OracleAccounts(PythPrice(200, slot), PythPrice(100, slot)),
      OracleAccounts(PythPrice(100, slot), PythPrice(100, slot - 1)) }

\* Pyth account pairs that fail one check each.
BadPythAccounts(slot) ==
    LET good == PythPrice(100, slot)
    IN  { OracleAccounts([good EXCEPT !.valid_slot = slot - STALE_AFTER_SLOTS_ELAPSED], good),
          OracleAccounts(good, [good EXCEPT !.status = "Halted"]),
          OracleAccounts([good EXCEPT !.ptype = "Unknown"], good),
          OracleAccounts([good EXCEPT !.ncomp = MIN_ACTIVE_PUBLISHERS - 1], good),
          OracleAccounts([good EXCEPT !.valid_slot = slot + 1], good),
          OracleAccounts([good EXCEPT !.price = -100], good),
          OracleAccounts([good EXCEPT !.conf = 3], good),
          OracleAccounts([good EXCEPT !.prev_price = 102], good),
          OracleAccounts([good EXCEPT !.product_ok = FALSE], good),
          [OracleAccounts(good, good) EXCEPT !.pyth_a_key = "other"] }

GoodSerumAccounts == { SerumAccounts(SerumKeys, SerumBook(1, 1)),
                       SerumAccounts(SerumKeys, SerumBook(1, 2)) }

BadSerumAccounts ==
    { SerumAccounts(SerumKeys, SerumBook(-1, 1)),
      SerumAccounts(SerumKeys, [SerumBook(1, 1) EXCEPT !.owner_ok = FALSE]),
      SerumAccounts(SerumKeys, [SerumBook(1, 1) EXCEPT !.mints_ok = FALSE]),
      SerumAccounts(SerumKeys, [SerumBook(1, 1) EXCEPT !.base_lot = 0]),
      SerumAccounts(<<"market", "asks", "bids">>, SerumBook(1, 1)) }

\* Oracle accounts offered to Initialize.
InitializeOracles(slot) ==
    LET good == PythPrice(100, slot)
    IN  { OracleAccounts(good, good),
          OracleAccounts([good EXCEPT !.valid_slot = slot - STALE_AFTER_SLOTS_ELAPSED], good),
          OracleAccounts([good EXCEPT !.product_ok = FALSE], good),
          SerumAccounts(SerumKeys, SerumBook(1, 1)),
          SerumAccounts(SerumKeys, SerumBook(-1, 1)),
          SerumAccounts(SerumKeys, [SerumBook(1, 1) EXCEPT !.owner_ok = FALSE]),
          SerumAccounts(SerumKeys, [SerumBook(1, 1) EXCEPT !.mints_ok = FALSE]) }

InitializeData(ledger0) ==
    [ slope |-> WAD \div 2, mid_price |-> 2 * WAD,
      token_a_decimals |-> 0, token_b_decimals |-> 0,
      token_a_amount |-> ledger0.poolA, token_b_amount |-> ledger0.poolB,
      oracle_priority_flags |-> PYTH_ONLY, admin |-> Admin,
      admin_fee_a |-> "adminA", admin_fee_b |-> "adminB" ]

\* Arguments that Initialize and the stable Initialize both reject or accept.
InitializeVariants(ledger0) ==
    { InitializeData(ledger0),
      [InitializeData(ledger0) EXCEPT !.slope = WAD + 1],
      [InitializeData(ledger0) EXCEPT !.token_a_amount = @ + 1],
      [InitializeData(ledger0) EXCEPT !.token_b_amount = @ + 1] }
    \cup { [InitializeData(ledger0) EXCEPT !.admin = a] : a \in Signers }

\* Initialize calls <<data, oracle accounts>>: each oracle-priority flag with the
\* oracle accounts it reads, and one call for each other variant.
InitializeCalls(ledger0, slot) ==
    LET good == OracleAccounts(PythPrice(100, slot), PythPrice(100, slot))
    IN  { <<[InitializeData(ledger0) EXCEPT !.oracle_priority_flags = f], o>> :
              f \in {PYTH_ONLY, SERUM_ONLY}, o \in InitializeOracles(slot) }
        \cup { <<[InitializeData(ledger0) EXCEPT !.oracle_priority_flags = f], good>> :
                  f \in {2, 3} }
        \cup { <<d, good>> : d \in InitializeVariants(ledger0) }

\* <<amount_in, minimum_amount_out>>
SwapAmounts == { <<0, 0>>, <<4, 0>>, <<20, 0>>, <<20, 12>>, <<20, 13>> }

\* Swap calls: every amount and direction with every usable oracle account
\* set, one call with each unusable one.
SwapCalls(oracles, bad) ==
    { [amount_in |-> a[1], minimum_amount_out |-> a[2], dir |-> dir, o |-> o] :
          a \in SwapAmounts, dir \in Directions, o \in oracles }
    \cup { [amount_in |-> 4, minimum_amount_out |-> 0, dir |-> SellBase, o |-> o] : o \in bad }
    \cup { [amount_in |-> 20, minimum_amount_out |-> 0, dir |-> SellBase,
             o |-> [o EXCEPT !.referral = rf]] :
               o \in oracles,
               rf \in { ReferralAccounts("referrer", "referrer"),
                        ReferralAccounts(DUMMY_REFERRER_ADDRESS, DUMMY_REFERRER_ADDRESS) } }

DepositData == { <<8, 8, 0>>, <<8, 4, 0>>, <<8, 8, 9>>, <<0, 0, 0>>, <<48, 48, 0>> }

WithdrawData == { <<8, 0, 0>>, <<8, 8, 0>>, <<8, 0, 9>>, <<0, 0, 0>>, <<48, 0, 0>> }

\* The calls offered to Swap and to SwapV2 at `slot`.
SwapV1Calls(slot) ==
    SwapCalls(GoodPythAccounts(slot), BadPythAccounts(slot) \cup GoodSerumAccounts)

SwapV2Calls(slot) ==
    SwapCalls(GoodPythAccounts(slot) \cup GoodSerumAccounts,
              BadPythAccounts(slot) \cup BadSerumAccounts)

SwapTypes == {"Normal", "Stable"}

SwapLimits == {10, 50}

\* Fees an admin sends with SetNewFees: lower fees, and fees whose admin
\* shares are above one as in test_set_new_fees.
NewFees ==
    { [ trade_fee_numerator |-> 1, trade_fee_denominator |-> 10,
        admin_trade_fee_numerator |-> 1, admin_trade_fee_denominator |-> 1,
        withdraw_fee_numerator |-> 0, withdraw_fee_denominator |-> 1,
        admin_withdraw_fee_numerator |-> 0, admin_withdraw_fee_denominator |-> 1 ],
      [ trade_fee_numerator |-> 1, trade_fee_denominator |-> 4,
        admin_trade_fee_numerator |-> 3, admin_trade_fee_denominator |-> 1,
        withdraw_fee_numerator |-> 1, withdraw_fee_denominator |-> 4,
        admin_withdraw_fee_numerator |-> 5, admin_withdraw_fee_denominator |-> 1 ] }

FarmAmounts == {0, 3, 10}

----------------------------------------------------------------------------
(* State machine *)

Acc == [swap |-> swap, config |-> config, ledger |-> ledger, farm |-> farm]

NoOp == [op |-> "none", err |-> OK, xfers |-> 0, calc |-> NoCalc]

ConfigInfo ==
    [ admin_key |-> "admin",
      fees |-> [ trade_fee_numerator |-> 1, trade_fee_denominator |-> 4,
                 admin_trade_fee_numerator |-> 1, admin_trade_fee_denominator |-> 2,
                 withdraw_fee_numerator |-> 1, withdraw_fee_denominator |-> 4,
                 admin_withdraw_fee_numerator |-> 1, admin_withdraw_fee_denominator |-> 2 ],
      rewards |-> [ trade_reward_numerator |-> 1, trade_reward_denominator |-> 4,
                    trade_reward_cap |-> 2 ] ]

Init ==
    /\ swap = SwapInfoDefault
    /\ config = ConfigInfo
    /\ ledger = [ poolA |-> 40, poolB |-> 40, userA |-> 40, userB |-> 40,
                  adminA |-> 0, adminB |-> 0, supply |-> 0, userLP |-> 0,
                  rewardSrc |-> 3, userReward |-> 0, referrerReward |-> 0,
                  farmUser |-> 6, farmPool |-> 0 ]
    /\ farm = [ info |-> [reserved_amount |-> 0, apr_numerator |-> 1, apr_denominator |-> 4],
                user |-> [ owner |-> "user",
                           position |-> [deposited_amount |-> 0, latest_deposit_slot |-> 0] ] ]
    /\ clock = STALE_AFTER_SLOTS_ELAPSED
    /\ focus \in {"swap", "farm"}
    /\ nops = 0
    /\ last = NoOp

\* One instruction: the handler runs on the current accounts and the runtime
\* commits or discards what it wrote.  A state reached by a failed instruction
\* holds the accounts of the state the instruction was attempted in, so the
\* behaviours are continued from that state only.
Execute(op, res) ==
    /\ last.err = OK
    /\ nops < MaxOps
    /\ LET kept == Commit(Acc, res)
       IN  /\ swap' = kept.swap
           /\ config' = kept.config
           /\ ledger' = kept.ledger
           /\ farm' = kept.farm
    /\ last' = [op |-> op, err |-> res.err, xfers |-> res.xfers,
                calc |-> IF res.err = OK THEN res.calc ELSE NoCalc]
    /\ nops' = IF res.err = OK THEN nops + 1 ELSE nops
    /\ UNCHANGED <<clock, focus>>

Initialize ==
    /\ focus = "swap"
    /\ \E c \in InitializeCalls(ledger, clock) :
          Execute("initialize", process_initialize(Acc, clock, c[1], c[2]))

StableInitialize ==
    /\ focus = "swap"
    /\ \E d \in InitializeVariants(ledger) :
          Execute("stable_initialize", process_stable_initialize(Acc, d))

Swap ==
    /\ focus = "swap"
    /\ \E c \in SwapV1Calls(clock) :
          Execute("swap", process_swap(Acc, clock, c.amount_in, c.minimum_amount_out,
                                       c.dir, c.o))

SwapV2 ==
    /\ focus = "swap"
    /\ \E c \in SwapV2Calls(clock) :
          Execute("swap_v2", process_swap_v2(Acc, clock, c.amount_in, c.minimum_amount_out,
                                          c.dir, c.o))

StableSwap ==
    /\ focus = "swap"
    /\ \E a \in SwapAmounts, dir \in Directions :
          Execute("stable_swap", process_stable_swap(Acc, a[1], a[2], dir, NoReferral))

StableSwapV2 ==
    /\ focus = "swap"
    /\ \E a \in SwapAmounts, dir \in Directions :
          Execute("stable_swap_v2", process_stable_swap_v2(Acc, a[1], a[2], dir, NoReferral))

Deposit ==
    /\ focus = "swap"
    /\ \E d \in DepositData, t \in SwapTypes :
          Execute("deposit", process_deposit(Acc, d[1], d[2], d[3], t))

Withdraw ==
    /\ focus = "swap"
    /\ \E d \in WithdrawData, t \in SwapTypes, oc \in OverflowChecks :
          Execute("withdraw", process_withdraw(Acc, d[1], d[2], d[3], t, oc))

Pause ==
    /\ focus = "swap"
    /\ \E a \in Signers : Execute("pause", pause(Acc, a))

Unpause ==
    /\ focus = "swap"
    /\ \E a \in Signers : Execute("unpause", unpause(Acc, a))

SetSwapLimit ==
    /\ focus = "swap"
    /\ \E pct \in SwapLimits, a \in Signers :
          Execute("set_swap_limit", set_swap_limit(Acc, pct, a))

\* Slopes an admin sends with SetSlope, as scaled values: one half and two.
Slopes == {WAD \div 2, 2 * WAD}

SetSlope ==
    /\ focus = "shares"
    /\ last.op = "none"
    /\ \E s \in Slopes, a \in Signers : Execute("set_slope", set_slope(Acc, s, a))

SetNewFees ==
    /\ focus = "swap"
    /\ \E f \in NewFees, a \in Signers : Execute("set_new_fees", set_new_fees(Acc, f, a))

FarmDeposit ==
    /\ focus = "farm"
    /\ \E amount \in FarmAmounts, owner \in Signers :
          Execute("farm_deposit", process_farm_deposit(Acc, clock, amount, owner))

FarmWithdraw ==
    /\ focus = "farm"
    /\ \E amount \in FarmAmounts, owner \in Signers :
          Execute("farm_withdraw", process_farm_withdraw(Acc, clock, amount, owner))

\* The cluster moves on to the next slot.
AdvanceSlot ==
    /\ last.err = OK
    /\ clock < STALE_AFTER_SLOTS_ELAPSED + MaxSlot
    /\ clock' = clock + 1
    /\ last' = NoOp
    /\ UNCHANGED <<swap, config, ledger, farm, focus, nops>>

\* A token holder sends tokens straight to a pool-owned token account with
\* the token program, outside any instruction of this program.
Donate ==
    /\ last.err = OK
    /\ nops < MaxOps
    /\ focus = "swap"
    /\ swap.is_initialized
    /\ check_reserve_amount(swap.pool_state, ledger.poolA, ledger.poolB) = OK
    /\ \E side \in {"A", "B"} :
          /\ ledger["user" \o side] >= 1
          /\ ledger' = [ledger EXCEPT !["user" \o side] = @ - 1, !["pool" \o side] = @ + 1]
    /\ last' = NoOp
    /\ nops' = nops + 1
    /\ UNCHANGED <<swap, config, farm, clock, focus>>

\* A share holder burns pool shares with the token program directly.
BurnShares ==
    /\ last.err = OK
    /\ nops < MaxOps
    /\ focus = "swap"
    /\ swap.is_initialized
    /\ check_mint_supply(swap.pool_state, ledger.supply) = OK
    /\ ledger.userLP >= 1
    /\ ledger' = [ledger EXCEPT !.userLP = @ - 1, !.supply = @ - 1]
    /\ last' = NoOp
    /\ nops' = nops + 1
    /\ UNCHANGED <<swap, config, farm, clock, focus>>

FarmDonate ==
    /\ last.err = OK
    /\ nops < MaxOps
    /\ focus = "farm"
    /\ farm_check_reserve_amount(farm.info, ledger.farmPool) = OK
    /\ ledger.farmUser >= 1
    /\ ledger' = [ledger EXCEPT !.farmUser = @ - 1, !.farmPool = @ + 1]
    /\ last' = NoOp
    /\ nops' = nops + 1
    /\ UNCHANGED <<swap, config, farm, clock, focus>>

Next ==
    \/ Initialize
    \/ StableInitialize
    \/ Swap
    \/ SwapV2
    \/ StableSwap
    \/ StableSwapV2
    \/ Deposit
    \/ Withdraw
    \/ Pause
    \/ Unpause
    \/ SetSwapLimit
    \/ SetNewFees
    \/ FarmDeposit
    \/ FarmWithdraw
    \/ AdvanceSlot
    \/ Donate
    \/ BurnShares
    \/ FarmDonate

Spec == Init /\ [][Next]_vars

----------------------------------------------------------------------------
(* Properties *)

SwapOps == {"swap", "swap_v2", "stable_swap", "stable_swap_v2"}

\* The accounts are as a committed instruction (or the environment) left them.
\* The state after a failed instruction holds the accounts and the clock of the
\* state the instruction was attempted in, where the properties over every
\* possible call are evaluated already.
Committed == last.err = OK

\* The same, in a state where the next instruction can still be executed.
Callable == Committed /\ nops < MaxOps

InitializeOps == {"initialize", "stable_initialize"}

ReservesMatchBalances ==
    /\ swap.pool_state.base_reserve = DecFrom(ledger.poolA)
    /\ swap.pool_state.quote_reserve = DecFrom(ledger.poolB)

\* C1: after every successful Initialize, Swap, SwapV2, StableSwap,
\* StableSwapV2, Deposit or Withdraw the pool's base_reserve and quote_reserve
\* equal the balances of the pool's token A and token B accounts; an operation
\* that would end with a mismatch is not among the successful ones.
C1_ReservesEqualBalances ==
    (last.err = OK /\ last.op \in InitializeOps \cup SwapOps \cup {"deposit", "withdraw"})
        => ReservesMatchBalances

\* A trade that moved tokens has succeeded.
C1_Witness ==
    /\ last.op \in SwapOps
    /\ last.err = OK
    /\ last.calc.amount_out > 0
    /\ last.calc.admin_fee > 0

\* C2: a successful swap increases the input-side reserve by exactly amount_in,
\* decreases the output-side reserve by exactly amount_out + admin_fee and
\* leaves total_supply unchanged.
C2_SwapConservation ==
    [][ (last'.op \in SwapOps /\ last'.err = OK) =>
          LET c == last'.calc
              before == swap.pool_state
              after == swap'.pool_state
          IN  /\ after.total_supply = before.total_supply
              /\ IF c.direction = SellBase
                 THEN /\ after.base_reserve = before.base_reserve + DecFrom(c.amount_in)
                      /\ after.quote_reserve =
                             before.quote_reserve - DecFrom(c.amount_out + c.admin_fee)
                 ELSE /\ after.quote_reserve = before.quote_reserve + DecFrom(c.amount_in)
                      /\ after.base_reserve =
                             before.base_reserve - DecFrom(c.amount_out + c.admin_fee) ]_vars

\* A successful swap in which the admin fee is part of what leaves the pool.
C2_Witness ==
    /\ last.op \in {"swap", "swap_v2"}
    /\ last.err = OK
    /\ last.calc.amount_in > 0
    /\ last.calc.admin_fee > 0
    /\ last.calc.direction = SellQuote

C4_SupplyMatchesMint ==
    [][ (last'.err = OK /\ last'.op \in InitializeOps \cup {"deposit", "withdraw"}) =>
          /\ swap'.pool_state.total_supply = ledger'.supply
          /\ last'.op = "deposit" =>
                /\ swap'.pool_state.total_supply =
                       swap.pool_state.total_supply + last'.calc.pool_mint_amount
                /\ ledger'.userLP = ledger.userLP + last'.calc.pool_mint_amount
          /\ last'.op = "withdraw" =>
                /\ swap'.pool_state.total_supply =
                       swap.pool_state.total_supply - last'.calc.pool_token_amount
                /\ ledger'.userLP = ledger.userLP - last'.calc.pool_token_amount ]_vars

\* Shares were redeemed after an earlier deposit.
C4_Witness ==
    /\ last.op = "withdraw"
    /\ last.err = OK
    /\ last.calc.pool_token_amount > 0
    /\ last.calc.admin_fee_base > 0
    /\ ledger.supply > 0

\* What the four swap handlers return for every call offered in this state.
SwapV1Outcomes ==
    { process_swap(Acc, clock, c.amount_in, c.minimum_amount_out, c.dir, c.o) :
          c \in SwapV1Calls(clock) }

SwapV2Outcomes ==
    { process_swap_v2(Acc, clock, c.amount_in, c.minimum_amount_out, c.dir, c.o) :
          c \in SwapV2Calls(clock) }

StableSwapOutcomes ==
    { process_stable_swap(Acc, a[1], a[2], dir, NoReferral) : a \in SwapAmounts, dir \in Directions }
    \cup { process_stable_swap_v2(Acc, a[1], a[2], dir, NoReferral) : a \in SwapAmounts, dir \in Directions }

SwapOutcomes == SwapV1Outcomes \cup SwapV2Outcomes \cup StableSwapOutcomes

\* What the swap, deposit and withdraw instructions of the pool's own type return.
OwnTypeOutcomes ==
    (IF swap.swap_type = "Normal" THEN SwapV1Outcomes \cup SwapV2Outcomes
     ELSE StableSwapOutcomes)
    \cup { process_deposit(Acc, d[1], d[2], d[3], swap.swap_type) : d \in DepositData }
    \cup { process_withdraw(Acc, d[1], d[2], d[3], swap.swap_type, oc) :
              d \in WithdrawData, oc \in OverflowChecks }

\* C5 (as stated): while is_paused is set, every Swap, SwapV2, StableSwap,
\* StableSwapV2, Deposit and Withdraw on the pool is rejected with IsPaused and
\* changes nothing.
C5_PausedRejectsAll ==
    (swap.is_initialized /\ swap.is_paused) =>
        \A r \in OwnTypeOutcomes : r.err = "IsPaused" /\ r.acc = Acc

\* C7 (as stated): a successful Withdraw transfers to the user at least
\* minimum_token_a_amount of token A and minimum_token_b_amount of token B.
C7_WithdrawMeetsMinimums ==
    (last.op = "withdraw" /\ last.err = OK) =>
        /\ last.calc.base_out_amount >= last.calc.minimum_token_a_amount
        /\ last.calc.quote_out_amount >= last.calc.minimum_token_b_amount

Trader(r) == IF r.calc.direction = SellBase THEN "userB" ELSE "userA"

\* C6 (as stated): a swap fails with ExceededSlippage exactly when the net
\* amount_out it computed is below minimum_amount_out.
C6_SlippageExactlyWhenBelowMinimum ==
    \A r \in SwapOutcomes :
        r.calc.kind = "swap" =>
            (r.err = "ExceededSlippage" <=> r.calc.amount_out < r.calc.minimum_amount_out)

\* C6 (amended): a swap fails with ExceededSlippage only when its net
\* amount_out is below minimum_amount_out, and always does so when the
\* amount passed the swap-out limit check; a successful swap transfers to the
\* trader exactly amount_out, which is at least minimum_amount_out.
C6_SlippageAfterLimitCheck ==
    Callable =>
    \A r \in SwapOutcomes :
        /\ r.err = "ExceededSlippage" =>
              /\ r.calc.kind = "swap"
              /\ r.calc.amount_out < r.calc.minimum_amount_out
        /\ (r.calc.kind = "swap" /\ r.calc.limit = OK
                /\ r.calc.amount_out < r.calc.minimum_amount_out)
              => r.err = "ExceededSlippage"
        /\ r.err = OK =>
              /\ r.calc.amount_out >= r.calc.minimum_amount_out
              /\ r.acc.ledger[Trader(r)] = ledger[Trader(r)] + r.calc.amount_out

\* A swap was refused for slippage.
C6_Witness ==
    /\ last.op \in SwapOps
    /\ last.err = "ExceededSlippage"

OutReserve(direction) ==
    IF direction = SellBase THEN swap.pool_state.quote_reserve ELSE swap.pool_state.base_reserve

\* C8: a swap whose net output exceeds swap_out_limit_percentage percent of the
\* output-side reserve is rejected before any token transfer and with the
\* reserves untouched.
C8_SwapOutLimit ==
    [](Callable =>
       \A r \in SwapOutcomes :
           (r.calc.kind = "swap"
               /\ DecFrom(r.calc.amount_out) * 100
                      > OutReserve(r.calc.direction) * swap.swap_out_limit_percentage)
             => /\ r.err # OK
                /\ r.xfers = 0
                /\ r.acc = Acc)

\* A swap was refused by a limit the admin had set.
C8_Witness ==
    /\ last.op \in SwapOps
    /\ last.err = "ExceededSwapOutLimit"
    /\ swap.swap_out_limit_percentage > 0

\* The checks a Swap or SwapV2 call passes before it resolves the oracle.
PassesSwapEntry(o) ==
    /\ swap.is_initialized
    /\ swap.swap_type = "Normal"
    /\ ~swap.is_paused
    /\ swap.pyth_a = o.pyth_a_key
    /\ swap.pyth_b = o.pyth_b_key

PassesSerumVerification(o) ==
    \/ is_pyth_only(swap.oracle_priority_flags)
    \/ /\ check_serum_accounts(o.book, o.serum_keys, swap.serum_combined_address) = OK
       /\ validate_serum_market_mint_address(o.book) = OK

\* C9: an Initialize whose oracle resolution fails still creates the pool,
\* priced at the caller's mid_price with the current slot as its valid slot; a
\* Swap or SwapV2 whose oracle resolution fails is refused with the oracle's
\* error and changes nothing.
C9_OracleFallbackOnlyAtInitialize ==
    [](Callable =>
       /\ \A c \in InitializeCalls(ledger, clock) :
             LET r == process_initialize(Acc, clock, c[1], c[2])
             IN  (r.calc.kind = "initialize" /\ r.calc.oracle_err # OK) =>
                     /\ r.err = OK
                     /\ r.acc.swap.is_initialized
                     /\ r.acc.swap.pool_state.market_price = c[1].mid_price
                     /\ r.acc.swap.pool_state.last_market_price = c[1].mid_price
                     /\ r.acc.swap.pool_state.last_valid_market_price_slot = clock
       /\ \A c \in SwapV1Calls(clock) :
             LET r == process_swap(Acc, clock, c.amount_in, c.minimum_amount_out, c.dir, c.o)
                 mp == get_market_price_from_pyth(c.o.pyth_a, c.o.pyth_b, clock)
             IN  mp.err # OK =>
                     /\ r.err # OK
                     /\ r.acc = Acc
                     /\ PassesSwapEntry(c.o) => r.err = mp.err
       /\ \A c \in SwapV2Calls(clock) :
             LET r == process_swap_v2(Acc, clock, c.amount_in, c.minimum_amount_out, c.dir, c.o)
                 mp == get_market_price(swap.oracle_priority_flags, c.o.pyth_a, c.o.pyth_b, clock,
                                        c.o.book, swap.token_a_decimals, swap.token_b_decimals)
             IN  mp.err # OK =>
                     /\ r.err # OK
                     /\ r.acc = Acc
                     /\ (PassesSwapEntry(c.o) /\ PassesSerumVerification(c.o)) => r.err = mp.err)

\* A pool was created on the caller's mid_price because the oracle could not be resolved.
C9_Witness ==
    /\ last.op = "initialize"
    /\ last.err = OK
    /\ last.calc.oracle_err # OK
    /\ swap.pool_state.market_price = last.calc.mid_price

PriceSlot(sw) == sw.pool_state.last_valid_market_price_slot

----------------------------------------------------------------------------
(* Pool lifecycle *)

\* The errors of the checks process_initialize makes before it looks at the
\* pool account: the admin key and signature, and the oracle accounts the
\* priority flag selects.
BeforeAssertUninitialized ==
    { "Unauthorized", "MissingRequiredSignature", "InvalidPythConfig",
      "InvalidSerumProgramId", "InvalidSerumMarketMintAddress", "UnsupportedOraclePriority" }

----------------------------------------------------------------------------
(* Oracle source selection *)

\* The price a successful Swap or SwapV2 result `r` of call `c` traded on is
\* the Pyth cross price of the accounts passed.
UsesPythPrice(r, c) ==
    LET mp == get_market_price_from_pyth(c.o.pyth_a, c.o.pyth_b, clock)
    IN  mp.err = OK /\ r.calc.oracle_price = mp.price /\ r.calc.oracle_slot = mp.slot

\* The price a successful SwapV2 result `r` of call `c` traded on is the
\* Serum mid price of the order book passed.
UsesSerumPrice(r, c) ==
    LET mp == get_market_price_from_serum(c.o.book, swap.token_a_decimals, swap.token_b_decimals)
    IN  mp.err = OK /\ r.calc.oracle_price = mp.price /\ r.calc.oracle_slot = clock

\* Every successful Swap and SwapV2 on the pool trades on the price of `source`.
SwapsUse(source) ==
    /\ \A c \in SwapV1Calls(clock) :
          LET r == process_swap(Acc, clock, c.amount_in, c.minimum_amount_out, c.dir, c.o)
          IN  r.err = OK => (source = "pyth" /\ UsesPythPrice(r, c))
    /\ \A c \in SwapV2Calls(clock) :
          LET r == process_swap_v2(Acc, clock, c.amount_in, c.minimum_amount_out, c.dir, c.o)
          IN  r.err = OK => IF source = "pyth" THEN UsesPythPrice(r, c)
                            ELSE UsesSerumPrice(r, c)

\* C12: a flag other than PYTH_ONLY and SERUM_ONLY is rejected by Initialize
\* with UnsupportedOraclePriority; every successful swap on a PYTH_ONLY pool
\* trades on the Pyth cross price and every successful swap on a SERUM_ONLY
\* pool on the Serum mid price, Swap and SwapV2 alike.
C12_OneOracleSourcePerFlag ==
    Committed =>
    /\ \A c \in InitializeCalls(ledger, clock) :
          c[1].oracle_priority_flags \notin {PYTH_ONLY, SERUM_ONLY} =>
              process_initialize(Acc, clock, c[1], c[2]).err = "UnsupportedOraclePriority"
    /\ (swap.is_initialized /\ swap.swap_type = "Normal") =>
          /\ swap.oracle_priority_flags \in {PYTH_ONLY, SERUM_ONLY}
          /\ swap.oracle_priority_flags = PYTH_ONLY => SwapsUse("pyth")
          /\ swap.oracle_priority_flags = SERUM_ONLY => SwapsUse("serum")

----------------------------------------------------------------------------
(* Serum order-book pinning *)

SerumPool == swap.is_initialized /\ from_bits_truncate(swap.oracle_priority_flags) = SERUM_ONLY

\* C13 (as stated): on a pool initialized in Serum mode the recorded
\* fingerprint stays that of the triple given at initialization, and every
\* SwapV2 that supplies another triple fails with InvalidSerumMarketAccounts.
C13_OtherTripleInvalidSerumMarketAccounts ==
    (Committed /\ SerumPool) =>
        /\ swap.serum_combined_address = SerumFingerprint(SerumKeys)
        /\ \A c \in SwapV2Calls(clock) :
              LET r == process_swap_v2(Acc, clock, c.amount_in, c.minimum_amount_out, c.dir, c.o)
              IN  c.o.serum_keys # SerumKeys => r.err = "InvalidSerumMarketAccounts"

\* C13 (amended): on a pool initialized in Serum mode the recorded fingerprint
\* stays that of the triple given at initialization (every Initialize here
\* passes SerumKeys); a SwapV2 that supplies another triple always fails,
\* before any price is read and without a write, and it fails with
\* InvalidSerumMarketAccounts when it has passed the checks made before the
\* fingerprint is compared (swap type, pause flag, Pyth keys, owner of the
\* Serum accounts).
C13_SerumAccountsPinned ==
    [](SerumPool =>
           /\ swap.serum_combined_address = SerumFingerprint(SerumKeys)
           /\ Callable => \A c \in SwapV2Calls(clock) :
                 LET r == process_swap_v2(Acc, clock, c.amount_in, c.minimum_amount_out, c.dir, c.o)
                 IN  c.o.serum_keys # SerumKeys =>
                         /\ r.err # OK
                         /\ r.calc = NoCalc
                         /\ r.acc = Acc
                         /\ (PassesSwapEntry(c.o) /\ c.o.book.owner_ok)
                               => r.err = "InvalidSerumMarketAccounts")

\* A SwapV2 with another triple was refused on a Serum pool.
C13_Witness ==
    /\ SerumPool
    /\ last.op = "swap_v2"
    /\ last.err = "InvalidSerumMarketAccounts"

----------------------------------------------------------------------------
(* get_pyth_price on its own: one call per behaviour, on a price account   *)
(* drawn from PythAccounts, its result kept in `last`.                     *)

PythConfs == (0 .. MaxConf) \cup {U64_MAX \div CONF_FACTOR, U64_MAX \div CONF_FACTOR + 1}

PythPrices == {k * CONF_FACTOR + d : k \in 0 .. MaxConf, d \in {-1, 0, 1}} \cup {I64_MAX}

PythPrevPrices(price) ==
    { v \in {price + d : d \in -MaxDelta .. MaxDelta}
            \cup {price + I64_MAX \div VOLATILITY_FACTOR, price + I64_MAX \div VOLATILITY_FACTOR + 1,
                  I64_MIN, I64_MAX} :
        v >= I64_MIN /\ v <= I64_MAX }

\* Exponents whose power of ten is the largest that fits a u64, or the first
\* that does not.
PythExponents == {-4, -3, 3, 4}

\* The price account of test_get_pyth_price (option 1) with price, confidence
\* and previous price in millions: 120 +- 2 after 119, two decimals, valid
\* one slot before `slot`.
TestPythPrice(slot) ==
    [ ptype |-> "Price", status |-> "Trading", ncomp |-> MIN_ACTIVE_PUBLISHERS,
      valid_slot |-> slot - 1, price |-> 120, conf |-> 2, prev_price |-> 119,
      expo |-> -2, product_ok |-> TRUE ]

\* Price accounts of every type, status and quorum, and the loadable Trading
\* ones with every age, price, confidence, previous price and exponent.
PythAccounts(slot) ==
    { [ptype |-> t, status |-> s, ncomp |-> n, valid_slot |-> slot - e, price |-> 100,
       conf |-> c, prev_price |-> 100 + d, expo |-> -2, product_ok |-> TRUE] :
          t \in {"Price", "Unknown", "Unloadable"}, s \in {"Trading", "Halted"},
          n \in {MIN_ACTIVE_PUBLISHERS - 1, MIN_ACTIVE_PUBLISHERS},
          e \in {0, STALE_AFTER_SLOTS_ELAPSED}, c \in {0, MaxConf}, d \in {0, MaxDelta} }
    \cup UNION { { [ptype |-> "Price", status |-> "Trading", ncomp |-> MIN_ACTIVE_PUBLISHERS,
                    valid_slot |-> slot - e, price |-> pr, conf |-> c, prev_price |-> pv,
                    expo |-> x, product_ok |-> TRUE] :
                       e \in -1 .. MaxElapsed, c \in PythConfs, pv \in PythPrevPrices(pr),
                       x \in {-2, 0, 1} } : pr \in PythPrices }
    \cup { [TestPythPrice(slot) EXCEPT !.price = pr, !.prev_price = pr, !.expo = x] :
               pr \in PythPrices, x \in PythExponents }
    \cup {TestPythPrice(slot)}

\* The price accounts offered in pairs: the test's account, the same with
\* another price, age or exponent, a price of zero, and one account for each
\* guard of get_pyth_price.
PythPairAccounts(slot) ==
    LET good == TestPythPrice(slot)
    IN  { good,
          [good EXCEPT !.price = 50, !.prev_price = 50, !.conf = 1],
          [good EXCEPT !.valid_slot = slot - MaxSlot - 2],
          [good EXCEPT !.valid_slot = slot],
          [good EXCEPT !.expo = 0],
          [good EXCEPT !.price = 0, !.prev_price = 0, !.conf = 0],
          [good EXCEPT !.ptype = "Unknown"],
          [good EXCEPT !.status = "Halted"],
          [good EXCEPT !.ncomp = MIN_ACTIVE_PUBLISHERS - 1],
          [good EXCEPT !.valid_slot = slot - STALE_AFTER_SLOTS_ELAPSED],
          [good EXCEPT !.conf = 3],
          [good EXCEPT !.prev_price = 122] }

PythInit ==
    /\ swap = SwapInfoDefault
    /\ config = ConfigInfo
    /\ ledger = <<>>
    /\ farm = <<>>
    /\ clock = STALE_AFTER_SLOTS_ELAPSED + MaxElapsed
    /\ focus = "oracle"
    /\ nops = 0
    /\ last = NoOp

GetPythPrice ==
    /\ last.op = "none"
    /\ \E p \in PythAccounts(clock) :
       \E r \in get_pyth_price_builds(p, clock) :
          last' = [op |-> "get_pyth_price", err |-> r.err, xfers |-> 0,
                   calc |-> [kind |-> "pyth", account |-> p, price |-> r.price,
                             slot |-> r.slot]]
    /\ UNCHANGED <<swap, config, ledger, farm, clock, focus, nops>>

GetMarketPriceFromPyth ==
    /\ last.op = "none"
    /\ \E pa \in PythPairAccounts(clock), pb \in PythPairAccounts(clock) :
          LET r == get_market_price_from_pyth(pa, pb, clock)
          IN  last' = [op |-> "get_market_price_from_pyth", err |-> r.err, xfers |-> 0,
                       calc |-> [kind |-> "pyth_pair", a |-> pa, b |-> pb,
                                 price |-> r.price, slot |-> r.slot]]
    /\ UNCHANGED <<swap, config, ledger, farm, clock, focus, nops>>

\* Order books: lot sizes, best bid and best ask in price lots (a negative one
\* stands for an empty side), among them the three books of
\* test_calculate_serum_market_price with the powers of ten common to
\* numerator and denominator cancelled.
SerumBooks ==
    { [owner_ok |-> TRUE, mints_ok |-> TRUE, base_lot |-> bl, quote_lot |-> ql,
       bid |-> ba[1], ask |-> ba[2]] :
          bl \in {0, 1, 10}, ql \in {1, 10, 100},
          ba \in {<<3600, 3587>>, <<2, 8>>, <<24, 26>>, <<3, 4>>, <<0, 0>>, <<-1, 4>>} }

\* Token decimals: up to the first whose power of ten does not fit a u64.
SerumDecimals == 0 .. 4

GetMarketPriceFromSerum ==
    /\ last.op = "none"
    /\ \E book \in SerumBooks, bd \in SerumDecimals, qd \in SerumDecimals :
          /\ book.quote_lot * Pow10(bd) <= 100 \/ book.bid + book.ask <= 100
          /\ LET r == get_market_price(SERUM_ONLY, NoPythAccount, NoPythAccount, clock, book,
                                       bd, qd)
             IN  last' = [op |-> "get_market_price", err |-> r.err, xfers |-> 0,
                          calc |-> [kind |-> "serum", book |-> book, base_decimals |-> bd,
                                    quote_decimals |-> qd, price |-> r.price, slot |-> r.slot]]
    /\ UNCHANGED <<swap, config, ledger, farm, clock, focus, nops>>

PythNext == GetPythPrice \/ GetMarketPriceFromPyth \/ GetMarketPriceFromSerum

PythSpec == PythInit /\ [][PythNext]_vars

\* get_pyth_price has returned for an account that holds a price: type Price,
\* status Trading, and a quorum of publishers.
PythPriceSeen ==
    /\ last.op = "get_pyth_price"
    /\ last.calc.account.ptype = "Price"
    /\ last.calc.account.status = "Trading"
    /\ last.calc.account.ncomp >= MIN_ACTIVE_PUBLISHERS

SlotsElapsed == clock - last.calc.account.valid_slot

\* C14: get_pyth_price rejects a price with StalePythPrice whenever
\* slots_elapsed = current slot - valid_slot is 10 or more, and never rejects
\* for staleness when slots_elapsed is between 0 and 9.
C14_StaleAtTenSlots ==
    /\ (PythPriceSeen /\ SlotsElapsed >= 10) => last.err = "StalePythPrice"
    /\ (last.op = "get_pyth_price" /\ SlotsElapsed >= 0 /\ SlotsElapsed <= 9)
          => last.err # "StalePythPrice"

\* A price exactly 10 slots old was refused as stale.
C14_Witness ==
    /\ PythPriceSeen
    /\ SlotsElapsed = 10
    /\ last.err = "StalePythPrice"


\* The price account passed every check that get_pyth_price makes before it
\* looks at the confidence: type, status, quorum, age, sign of the price.
PythConfidenceChecked ==
    /\ PythPriceSeen
    /\ SlotsElapsed >= 0
    /\ SlotsElapsed < STALE_AFTER_SLOTS_ELAPSED
    /\ last.calc.account.price >= 0

\* confidence > price / 50, in integers
ConfidenceTooWide == last.calc.account.conf > last.calc.account.price \div 50

\* C15 as stated: InconfidentPythPrice exactly when confidence > price / 50,
\* for every non-negative aggregate price and every confidence value.
C15_InconfidentExactlyAboveTwoPercent ==
    PythConfidenceChecked => (last.err = "InconfidentPythPrice" <=> ConfidenceTooWide)

\* C15: get_pyth_price rejects a price with InconfidentPythPrice exactly when
\* confidence > price / 50, for every non-negative aggregate price and every
\* confidence value whose 50-fold fits in an unsigned 64-bit integer; a wider
\* confidence is rejected with CalculationFailure.
C15_InconfidentAboveTwoPercent ==
    PythConfidenceChecked =>
        IF last.calc.account.conf * 50 <= U64_MAX
        THEN last.err = "InconfidentPythPrice" <=> ConfidenceTooWide
        ELSE last.err = "CalculationFailure"

\* A confidence one fiftieth above 2% of a positive price was refused.
C15_Witness ==
    /\ PythConfidenceChecked
    /\ last.calc.account.price > 0
    /\ last.calc.account.conf * 50 = last.calc.account.price + 1
    /\ last.err = "InconfidentPythPrice"


\* The price account passed every check that get_pyth_price makes before it
\* compares the price with the previous price.
PythVolatilityChecked ==
    /\ PythConfidenceChecked
    /\ last.calc.account.conf * 50 <= last.calc.account.price

\* |prev_price - price| * 100
ScaledMove == Abs(last.calc.account.prev_price - last.calc.account.price) * 100

\* C16 as stated: UnstableMarketPrice when |prev_price - price| * 100 > price,
\* and not for smaller deviations.
C16_UnstableExactlyAboveOnePercent ==
    PythVolatilityChecked =>
        (last.err = "UnstableMarketPrice" <=> ScaledMove > last.calc.account.price)

\* C16: get_pyth_price rejects a price with UnstableMarketPrice when
\* |prev_price - price| * 100 > price and that product fits in a signed 64-bit
\* integer, and does not raise UnstableMarketPrice for smaller deviations; a
\* move whose 100-fold overflows is rejected with CalculationFailure, or
\* aborts the call when prev_price - price is the least signed 64-bit integer.
C16_UnstableAboveOnePercent ==
    PythVolatilityChecked =>
        IF ScaledMove <= I64_MAX
        THEN last.err = "UnstableMarketPrice" <=> ScaledMove > last.calc.account.price
        ELSE last.err \in {"CalculationFailure", "Panic"}

\* A price that moved by just over 1% was refused.
C16_Witness ==
    /\ PythVolatilityChecked
    /\ last.calc.account.price >= 100
    /\ ScaledMove <= last.calc.account.price + 100
    /\ last.err = "UnstableMarketPrice"


\* The account that get_pyth_price was called on is loadable but is not of
\* type Price, or is not Trading, or has fewer than 3 Trading components.
PythAccountUnfit ==
    /\ last.op = "get_pyth_price"
    /\ last.calc.account.ptype # "Unloadable"
    /\ \/ last.calc.account.ptype # "Price"
       \/ last.calc.account.status # "Trading"
       \/ last.calc.account.ncomp < 3

\* C17: get_pyth_price returns InvalidPythConfig whenever the price account's
\* type is not Price, its aggregate status is not Trading, or fewer than 3 of
\* its publisher components are Trading; no price is returned from such an
\* account.
C17_UnfitAccountInvalidPythConfig ==
    PythAccountUnfit => (last.err = "InvalidPythConfig" /\ last.calc.price = 0)

\* An account of type Price and status Trading with only 2 Trading
\* components was refused.
C17_Witness ==
    /\ PythAccountUnfit
    /\ last.calc.account.ptype = "Price"
    /\ last.calc.account.status = "Trading"
    /\ last.calc.account.ncomp = 2
    /\ last.err = "InvalidPythConfig"


IsFraction(numerator, denominator) == denominator # 0 /\ numerator <= denominator

\* C20 (as stated): in every reachable state each fee rate of the pool (trade
\* fee, admin share of the trade fee, withdraw fee, admin share of the
\* withdraw fee) is a fraction in [0,1], also after SetNewFees.
C20_FeeRatesAreFractions ==
    swap.is_initialized =>
        /\ IsFraction(swap.fees.trade_fee_numerator, swap.fees.trade_fee_denominator)
        /\ IsFraction(swap.fees.admin_trade_fee_numerator, swap.fees.admin_trade_fee_denominator)
        /\ IsFraction(swap.fees.withdraw_fee_numerator, swap.fees.withdraw_fee_denominator)
        /\ IsFraction(swap.fees.admin_withdraw_fee_numerator,
                      swap.fees.admin_withdraw_fee_denominator)


\* A step of a Withdraw took a fee's admin share, larger than the fee, from
\* the fee.
FeeUnderflow(r) ==
    /\ r.calc.kind = "withdraw"
    /\ \/ r.calc.withdraw_fee_base < r.calc.admin_fee_base
       \/ r.calc.withdraw_fee_quote < r.calc.admin_fee_quote

\* C18 (as stated): no arithmetic step wraps or aborts the call; every
\* overflow and every underflow below zero, withdraw_fee - admin_fee in a
\* Withdraw included, surfaces as CalculationFailure.  The first conjunct is
\* the build with overflow checks, the second the build without.
C18_OverflowIsCalculationFailure ==
    /\ last.err # "Panic"
    /\ (Committed /\ swap.is_initialized) =>
          \A d \in WithdrawData :
              LET r == process_withdraw(Acc, d[1], d[2], d[3], swap.swap_type, FALSE)
              IN  FeeUnderflow(r) => r.err = "CalculationFailure"


\* The token account of the pool that a swap pays out of.
SwapOutAccount(calc) == IF calc.direction = SellBase THEN "poolB" ELSE "poolA"


\* C19 (as stated): for every swap trade_fee = receive_amount * trade_fee_rate,
\* admin_fee = trade_fee * admin_trade_fee_rate, amount_out = receive_amount -
\* trade_fee, the part trade_fee - admin_fee stays in the pool, and what leaves
\* the pool, amount_out + admin_fee, is never more than receive_amount.
C19_SwapFeeSplit ==
    Committed =>
        \A r \in SwapOutcomes :
            r.err = OK =>
                LET c == r.calc
                    out == SwapOutAccount(c)
                IN  /\ c.trade_fee = Rate(c.receive_amount, swap.fees.trade_fee_numerator,
                                          swap.fees.trade_fee_denominator)
                    /\ c.admin_fee = Rate(c.trade_fee, swap.fees.admin_trade_fee_numerator,
                                          swap.fees.admin_trade_fee_denominator)
                    /\ c.amount_out = c.receive_amount - c.trade_fee
                    /\ r.acc.ledger[out]
                          = ledger[out] - c.receive_amount + (c.trade_fee - c.admin_fee)
                    /\ c.amount_out + c.admin_fee <= c.receive_amount


\* C21 (as stated): in every reachable pool state 0 <= slope <= 1; Initialize
\* rejects a larger slope with InvalidSlope, swaps, deposits and withdraws
\* never change slope, and neither the stable Initialize nor SetSlope can
\* store a slope above 1.
C21_SlopeAtMostOne ==
    /\ swap.pool_state.slope >= 0
    /\ swap.pool_state.slope <= DecOne
    /\ Callable =>
          \A c \in InitializeCalls(ledger, clock) :
              (c[1].slope > DecOne /\ ~swap.is_initialized)
                  => process_initialize(Acc, clock, c[1], c[2]).err = "InvalidSlope"
    /\ Callable => \A r \in OwnTypeOutcomes : r.acc.swap.pool_state.slope = swap.pool_state.slope


----------------------------------------------------------------------------
(* The curve on its own: a pool state drawn at the start, one quote per    *)
(* behaviour.                                                              *)

\* Pool states with every market price, slope in [0,1] and reserves of the sets.
CurvePoolStates ==
    { [PoolStateNew(mp, sl, 0) EXCEPT !.base_reserve = DecFrom(b), !.quote_reserve = DecFrom(q),
                                      !.total_supply = b] :
          mp \in {WAD \div 2, WAD, 2 * WAD, 3 * WAD + 1},
          sl \in {DecZero, WAD \div 3, WAD \div 2, DecOne},
          b \in {0, 1, 10, 40}, q \in {0, 1, 10, 40} }

\* Pools that hold liquidity: reserves equal to the pool's token balances,
\* a supply held by earlier depositors, the config's fees or none.
SharePools ==
    { [ swap |-> [SwapInfoDefault EXCEPT
                     !.is_initialized = TRUE,
                     !.fees = f,
                     !.pool_state = [PoolStateNew(WAD, WAD \div 2, 0) EXCEPT
                                        !.base_reserve = DecFrom(b),
                                        !.quote_reserve = DecFrom(q),
                                        !.total_supply = s]],
        ledger |-> [ poolA |-> b, poolB |-> q, userA |-> MaxDeposit, userB |-> MaxDeposit,
                     adminA |-> 0, adminB |-> 0, supply |-> s, userLP |-> 0,
                     rewardSrc |-> 0, userReward |-> 0, referrerReward |-> 0,
                     farmUser |-> 0, farmPool |-> 0 ] ] :
          b \in {1, 3, 7, 10, 40}, q \in {1, 3, 7, 10, 40}, s \in {1, 7, 10, 40},
          f \in {ConfigInfo.fees,
                 [ trade_fee_numerator |-> 0, trade_fee_denominator |-> 1,
                   admin_trade_fee_numerator |-> 0, admin_trade_fee_denominator |-> 1,
                   withdraw_fee_numerator |-> 0, withdraw_fee_denominator |-> 1,
                   admin_withdraw_fee_numerator |-> 0, admin_withdraw_fee_denominator |-> 1 ]} }

CurveInit ==
    /\ \/ /\ focus = "curve"
          /\ swap \in { [SwapInfoDefault EXCEPT !.pool_state = ps] : ps \in CurvePoolStates }
          /\ ledger = <<>>
       \/ /\ focus = "shares"
          /\ \E p \in SharePools : swap = p.swap /\ ledger = p.ledger
    /\ config = ConfigInfo
    /\ farm = <<>>
    /\ clock = 0
    /\ nops = 0
    /\ last = NoOp

GetOutAmount ==
    /\ last.op = "none"
    /\ focus = "curve"
    /\ \E amount_in \in 0 .. MaxAmountIn, dir \in Directions :
          LET r == get_out_amount(swap.pool_state, amount_in, dir)
          IN  last' = [op |-> "get_out_amount", err |-> r.err, xfers |-> 0,
                       calc |-> [kind |-> "quote", amount_in |-> amount_in,
                                 direction |-> dir, out |-> r.out]]
    /\ UNCHANGED <<swap, config, ledger, farm, clock, focus, nops>>

\* A Deposit and, when it succeeded, a Withdraw of the shares it minted.
DepositThenWithdraw ==
    /\ last.op = "none"
    /\ focus = "shares"
    /\ \E a \in 0 .. MaxDeposit, b \in 0 .. MaxDeposit, oc \in OverflowChecks :
          LET dep == process_deposit(Acc, a, b, 0, swap.swap_type)
              wd == process_withdraw(dep.acc, dep.calc.pool_mint_amount, 0, 0,
                                     swap.swap_type, oc)
          IN  IF dep.err # OK
              THEN /\ last' = [op |-> "deposit", err |-> dep.err, xfers |-> 0, calc |-> NoCalc]
                   /\ UNCHANGED <<swap, ledger>>
              ELSE /\ last' = [op |-> "deposit_withdraw", err |-> wd.err, xfers |-> wd.xfers,
                                calc |-> [kind |-> "round_trip", deposit |-> dep.calc,
                                          withdraw |-> wd.calc]]
                   /\ swap' = Commit(dep.acc, wd).swap
                   /\ ledger' = Commit(dep.acc, wd).ledger
    /\ UNCHANGED <<config, farm, clock, focus, nops>>

CurveNext == GetOutAmount \/ DepositThenWithdraw \/ SetSlope

CurveSpec == CurveInit /\ [][CurveNext]_vars

QuoteAfterPriceUpdate(c, base_decimals, quote_decimals) ==
    LET upd == check_and_update_market_price_and_slot(swap.pool_state, c.oracle_price,
                                                      c.oracle_slot)
        set == set_market_price(upd.ps, base_decimals, quote_decimals, c.oracle_price)
    IN  get_out_amount(set.ps, c.amount_in, c.direction).out

\* A swap's result holds the price and slot it resolved as the pool's last
\* accepted ones.
PriceInstalled(r) ==
    /\ r.acc.swap.pool_state.last_market_price = r.calc.oracle_price
    /\ r.acc.swap.pool_state.last_valid_market_price_slot = r.calc.oracle_slot

\* C24: in Swap and SwapV2 a quote is computed only from a price resolved in
\* the same call that passed check_and_update_market_price_and_slot and was
\* installed with set_market_price before get_out_amount; a call whose price
\* fails the slot check computes no quote.
C24_QuoteAfterPriceInstalled ==
    [](Callable =>
            /\ \A r \in SwapV1Outcomes :
                  /\ r.calc.kind = "swap" =>
                         /\ r.calc.oracle_slot > swap.pool_state.last_valid_market_price_slot
                         /\ r.calc.receive_amount =
                                QuoteAfterPriceUpdate(r.calc, MintDecimals.a, MintDecimals.b)
                  /\ r.err = OK => PriceInstalled(r)
            /\ \A r \in SwapV2Outcomes :
                  /\ r.calc.kind = "swap" =>
                         /\ r.calc.oracle_slot > swap.pool_state.last_valid_market_price_slot
                         /\ r.calc.receive_amount =
                                QuoteAfterPriceUpdate(r.calc, swap.token_a_decimals,
                                                      swap.token_b_decimals)
                  /\ r.err = OK => PriceInstalled(r))

\* A pool that has accepted a price, in a state where one offered swap is
\* quoted from a newer price and another is refused for its slot.
C24_Witness ==
    /\ Callable
    /\ swap.is_initialized
    /\ swap.pool_state.last_valid_market_price_slot > 0
    /\ \E r \in SwapV1Outcomes \cup SwapV2Outcomes :
          r.calc.kind = "swap" /\ r.calc.receive_amount > 0
    /\ \E r \in SwapV1Outcomes \cup SwapV2Outcomes : r.err = "StalePrice"


\* The trailing accounts offered to a swap: none, a record naming a referrer,
\* a record naming the placeholder, a record of another trader, a record that
\* names another token account, a record without the token account, and an
\* account that holds no record.
Referrals ==
    { NoReferral,
      ReferralAccounts("referrer", "referrer"),
      ReferralAccounts(DUMMY_REFERRER_ADDRESS, DUMMY_REFERRER_ADDRESS),
      [ReferralAccounts("referrer", "referrer") EXCEPT
          !.data_key = get_referrer_data_pubkey("other", "config")],
      ReferralAccounts("referrer", "other"),
      [ReferralAccounts("referrer", "referrer") EXCEPT !.token_supplied = FALSE],
      [ReferralAccounts("referrer", "referrer") EXCEPT !.data.is_initialized = FALSE] }

\* Swap calls with a price both accounts of which are valid at `slot`, a small
\* and a large amount in either direction.
ReferralCalls(slot) ==
    { [amount_in |-> a, minimum_amount_out |-> 0, dir |-> dir,
       o |-> OracleAccounts(PythPrice(100, slot), PythPrice(100, slot))] :
          a \in {4, 20}, dir \in Directions }

\* What Swap and SwapV2 return in this state for these calls with each kind of
\* trailing accounts, next to what the same call returns without them.
ReferralOutcomes ==
    UNION { LET plain1 == process_swap(Acc, clock, c.amount_in, c.minimum_amount_out, c.dir, c.o)
                plain2 == process_swap_v2(Acc, clock, c.amount_in, c.minimum_amount_out,
                                          c.dir, c.o)
            IN  { [ referral |-> rf,
                    res |-> process_swap(Acc, clock, c.amount_in, c.minimum_amount_out, c.dir,
                                         [c.o EXCEPT !.referral = rf]),
                    plain |-> plain1 ] : rf \in Referrals }
                \cup
                { [ referral |-> rf,
                    res |-> process_swap_v2(Acc, clock, c.amount_in, c.minimum_amount_out,
                                            c.dir, [c.o EXCEPT !.referral = rf]),
                    plain |-> plain2 ] : rf \in Referrals } :
            c \in ReferralCalls(clock) }

\* What the four swap handlers return for these calls without trailing accounts.
RewardedOutcomes ==
    UNION { { process_swap(Acc, clock, c.amount_in, c.minimum_amount_out, c.dir, c.o),
              process_swap_v2(Acc, clock, c.amount_in, c.minimum_amount_out, c.dir, c.o),
              process_stable_swap(Acc, c.amount_in, c.minimum_amount_out, c.dir, NoReferral),
              process_stable_swap_v2(Acc, c.amount_in, c.minimum_amount_out, c.dir,
                                     NoReferral) } :
            c \in ReferralCalls(clock) }

\* C25: the trade reward a successful swap pays to the trader is
\* min(trade_reward_rate * reward_basis, trade_reward_cap), where reward_basis
\* is amount_in when the base token is sold and the net amount_out when the
\* quote token is sold.
C25_TradeReward ==
    Callable =>
        \A r \in RewardedOutcomes :
            r.err = OK =>
                LET c == r.calc
                    basis == IF c.direction = SellBase THEN c.amount_in ELSE c.amount_out
                IN  /\ c.amount_to_reward =
                           Min((basis * swap.rewards.trade_reward_numerator)
                                   \div swap.rewards.trade_reward_denominator,
                               swap.rewards.trade_reward_cap)
                    /\ r.acc.ledger.userReward = ledger.userReward + c.amount_to_reward

\* A swap that sold the quote token was rewarded on its net output, below the cap.
C25_Witness ==
    /\ last.op \in {"swap", "swap_v2", "stable_swap", "stable_swap_v2"}
    /\ last.err = OK
    /\ last.calc.direction = SellQuote
    /\ last.calc.amount_out < last.calc.amount_in
    /\ last.calc.amount_to_reward > 0
    /\ last.calc.amount_to_reward < swap.rewards.trade_reward_cap
    /\ ledger.userReward = last.calc.amount_to_reward


\* C26: a swap transfers a referral reward only when the trailing accounts hold
\* an initialised referral record at the address derived from the trader and
\* the config whose referrer is not the placeholder, and then it transfers
\* referral_reward_rate * reward; a swap with no trailing accounts, or with a
\* record that names the placeholder, succeeds whenever the same swap without
\* them does, and transfers nothing to a referrer.
C26_ReferralReward ==
    [](Callable =>
            \A o \in ReferralOutcomes :
                LET paid == o.res.acc.ledger.referrerReward - ledger.referrerReward
                    rf == o.referral
                IN  /\ (o.res.err = OK /\ paid > 0) =>
                           /\ rf.supplied
                           /\ rf.data_key = get_referrer_data_pubkey("user", "config")
                           /\ rf.data.is_initialized
                           /\ rf.data.referrer # DUMMY_REFERRER_ADDRESS
                           /\ paid = (o.res.calc.amount_to_reward * ReferralRewardRate.numerator)
                                         \div ReferralRewardRate.denominator
                    /\ (~rf.supplied \/ rf.data.referrer = DUMMY_REFERRER_ADDRESS) =>
                           /\ o.res.err = o.plain.err
                           /\ o.res.err = OK => paid = 0)

\* A swap with the trader's referral record paid the referrer half of the
\* trade reward.
C26_Witness ==
    /\ last.op \in {"swap", "swap_v2"}
    /\ last.err = OK
    /\ last.calc.referral_reward > 0
    /\ ledger.referrerReward = last.calc.referral_reward
    /\ ledger.userReward = last.calc.amount_to_reward


\* C27: a price that get_pyth_price returns is the aggregate price scaled by
\* its exponent, price * 10^expo for expo >= 0 and price / 10^|expo| for
\* expo < 0, with the older of the clock's slot and the account's valid slot;
\* 120 (millions) +- 2 with exponent -2, valid one slot ago, gives 1.2
\* (millions) and the account's valid slot.
C27_PythPriceScaledByExponent ==
    (last.op = "get_pyth_price" /\ last.err = OK) =>
        LET p == last.calc.account
        IN  /\ p.expo >= 0 => last.calc.price = DecFrom(p.price) * Pow10(p.expo)
            /\ p.expo < 0 =>
                  /\ last.calc.price * Pow10(-p.expo) <= DecFrom(p.price)
                  /\ DecFrom(p.price) < (last.calc.price + 1) * Pow10(-p.expo)
            /\ last.calc.slot = Min(clock, p.valid_slot)
            /\ p = TestPythPrice(clock) =>
                  /\ 10 * last.calc.price = DecFrom(12)
                  /\ last.calc.slot = clock - 1

\* The call on the test's price account returned a price.
C27_Witness ==
    /\ last.op = "get_pyth_price"
    /\ last.err = OK
    /\ last.calc.account = TestPythPrice(clock)
    /\ last.calc.price > 0
    /\ last.calc.slot < clock


\* C28: the Pyth market price is the price of token A divided by the price of
\* token B and its valid slot the older of the two prices' slots; when
\* get_pyth_price fails for either account the resolution fails, with the
\* error of the first account that failed.
C28_PythPairPrice ==
    last.op = "get_market_price_from_pyth" =>
        LET a == get_pyth_price(last.calc.a, clock)
            b == get_pyth_price(last.calc.b, clock)
        IN  /\ last.err = OK =>
                  /\ a.err = OK /\ b.err = OK
                  /\ last.calc.price = (a.price * WAD) \div b.price
                  /\ last.calc.slot <= a.slot /\ last.calc.slot <= b.slot
                  /\ last.calc.slot \in {a.slot, b.slot}
            /\ a.err # OK => last.err = a.err
            /\ (a.err = OK /\ b.err # OK) => last.err = b.err

\* A price was resolved from two accounts with different prices, the second
\* one older than the first.
C28_Witness ==
    /\ last.op = "get_market_price_from_pyth"
    /\ last.err = OK
    /\ last.calc.a.price > last.calc.b.price
    /\ last.calc.price > DecOne
    /\ last.calc.b.valid_slot < last.calc.a.valid_slot
    /\ last.calc.slot = last.calc.b.valid_slot


\* C29: the Serum market price is the midpoint of best bid and best ask, kept
\* fractional, times quote_lot * 10^base_decimals over
\* base_lot * 10^quote_decimals (rounded down to the Decimal's last digit),
\* and its valid slot is the current slot; base_lot 10, bid 3600, ask 3587
\* and a lot-and-decimals ratio of 10 give 35935.
C29_SerumMidPrice ==
    (last.op = "get_market_price" /\ last.err = OK) =>
        LET c == last.calc
            num == (c.book.bid + c.book.ask) * WAD * c.book.quote_lot * Pow10(c.base_decimals)
            den == 2 * c.book.base_lot * Pow10(c.quote_decimals)
        IN  /\ den > 0
            /\ c.price * den <= num
            /\ num < (c.price + 1) * den
            /\ c.slot = clock
            /\ ( /\ c.book.base_lot = 10 /\ c.book.quote_lot = 100
                 /\ c.book.bid = 3600 /\ c.book.ask = 3587
                 /\ c.base_decimals = c.quote_decimals ) => c.price = DecFrom(35935)

\* The test's order book was priced at the current slot.
C29_Witness ==
    /\ last.op = "get_market_price"
    /\ last.err = OK
    /\ last.calc.book.bid = 3600
    /\ last.calc.book.ask = 3587
    /\ last.calc.price = DecFrom(35935)
    /\ last.calc.slot = clock


\* C30: a successful Deposit mints at least min_mint_amount shares and moves
\* from the depositor to the pool exactly the amounts buy_shares accepted,
\* which are at most token_a_amount and token_b_amount; a Deposit whose share
\* amount is below min_mint_amount fails with ExceededSlippage before any
\* transfer or mint.
C30_DepositSlippage ==
    Callable =>
        \A d \in DepositData :
            LET r == process_deposit(Acc, d[1], d[2], d[3], swap.swap_type)
                bought == buy_shares(swap.pool_state, d[1], d[2])
            IN  /\ r.err = OK =>
                      /\ bought.err = OK
                      /\ bought.mint >= d[3]
                      /\ bought.base <= d[1]
                      /\ bought.quote <= d[2]
                      /\ r.acc.ledger.userLP = ledger.userLP + bought.mint
                      /\ r.acc.ledger.supply = ledger.supply + bought.mint
                      /\ r.acc.ledger.userA = ledger.userA - bought.base
                      /\ r.acc.ledger.userB = ledger.userB - bought.quote
                      /\ r.acc.ledger.poolA = ledger.poolA + bought.base
                      /\ r.acc.ledger.poolB = ledger.poolB + bought.quote
                /\ ( /\ swap.is_initialized
                     /\ ~swap.is_paused
                     /\ bought.err = OK
                     /\ bought.mint < d[3] ) =>
                      /\ r.err = "ExceededSlippage"
                      /\ r.xfers = 0
                      /\ r.acc = Acc

\* A deposit was accepted for less of token B than was offered, in a pool
\* where the deposit that asks for nine shares is refused for slippage.
C30_Witness ==
    /\ last.op = "deposit"
    /\ last.err = OK
    /\ last.calc.pool_mint_amount >= last.calc.min_mint_amount
    /\ last.calc.pool_mint_amount > 0
    /\ last.calc.token_a_output + last.calc.token_b_output
           < last.calc.token_a_amount + last.calc.token_b_amount
    /\ \E d \in DepositData :
          process_deposit(Acc, d[1], d[2], d[3], swap.swap_type).err = "ExceededSlippage"

----------------------------------------------------------------------------
(* Resubmission.  A third specification in which a trader keeps sending    *)
(* swaps to one pool whatever the last one returned: a failed instruction  *)
(* is followed by further instructions on the accounts it left.            *)

\* A pool of the given oracle priority that Initialize created at the first
\* slot and whose admin has set a swap-out limit of 50 percent.
RetryAccounts(flags) ==
    LET fresh == [ swap |-> SwapInfoDefault, config |-> ConfigInfo,
                   ledger |-> [ poolA |-> 40, poolB |-> 40, userA |-> 40, userB |-> 40,
                                adminA |-> 0, adminB |-> 0, supply |-> 0, userLP |-> 0,
                                rewardSrc |-> 3, userReward |-> 0, referrerReward |-> 0,
                                farmUser |-> 6, farmPool |-> 0 ],
                   farm |-> [ info |-> [reserved_amount |-> 0, apr_numerator |-> 1,
                                         apr_denominator |-> 4],
                              user |-> [ owner |-> "user",
                                         position |-> [deposited_amount |-> 0,
                                                       latest_deposit_slot |-> 0] ] ] ]
        data == [InitializeData(fresh.ledger) EXCEPT !.oracle_priority_flags = flags]
        oracle == IF flags = PYTH_ONLY
                  THEN OracleAccounts(PythPrice(100, STALE_AFTER_SLOTS_ELAPSED),
                                      PythPrice(100, STALE_AFTER_SLOTS_ELAPSED))
                  ELSE SerumAccounts(SerumKeys, SerumBook(1, 1))
        created == process_initialize(fresh, STALE_AFTER_SLOTS_ELAPSED, data, oracle)
    IN  set_swap_limit(created.acc, 50, Admin).acc

RetryInit ==
    /\ \E flags \in {PYTH_ONLY, SERUM_ONLY} :
          /\ swap = RetryAccounts(flags).swap
          /\ config = RetryAccounts(flags).config
          /\ ledger = RetryAccounts(flags).ledger
          /\ farm = RetryAccounts(flags).farm
    /\ clock = STALE_AFTER_SLOTS_ELAPSED
    /\ focus = "retry"
    /\ nops = 0
    /\ last = [NoOp EXCEPT !.op = "initialize"]

\* One instruction sent whatever the last one returned; `after` keeps the
\* result of the instruction before it.
Attempt(op, res) ==
    /\ nops < MaxOps
    /\ LET kept == Commit(Acc, res)
       IN  /\ swap' = kept.swap
           /\ config' = kept.config
           /\ ledger' = kept.ledger
           /\ farm' = kept.farm
    /\ last' = [op |-> op, err |-> res.err, xfers |-> res.xfers,
                calc |-> IF res.err = OK THEN res.calc ELSE NoCalc,
                after |-> last.err]
    /\ nops' = nops + 1
    /\ UNCHANGED <<clock, focus>>

\* The swaps a trader resubmits: a small and a large amount in either
\* direction, with Pyth prices that are fresh, stale or too vague at `slot`,
\* or with a Serum book that has or lacks a bid.
RetryCalls(slot) ==
    LET good == PythPrice(100, slot)
    IN  { [amount_in |-> a[1], minimum_amount_out |-> a[2], dir |-> dir, o |-> o] :
              a \in {<<4, 0>>, <<20, 0>>, <<20, 13>>}, dir \in Directions,
              o \in { OracleAccounts(good, good),
                      OracleAccounts([good EXCEPT !.valid_slot =
                                         slot - STALE_AFTER_SLOTS_ELAPSED], good),
                      OracleAccounts(good, [good EXCEPT !.conf = 3]),
                      SerumAccounts(SerumKeys, SerumBook(1, 1)),
                      SerumAccounts(SerumKeys, SerumBook(-1, 1)) } }

RetrySwap ==
    /\ focus = "retry"
    /\ \E c \in RetryCalls(clock) :
          Attempt("swap", process_swap(Acc, clock, c.amount_in, c.minimum_amount_out,
                                       c.dir, c.o))

RetrySwapV2 ==
    /\ focus = "retry"
    /\ \E c \in RetryCalls(clock) :
          Attempt("swap_v2", process_swap_v2(Acc, clock, c.amount_in, c.minimum_amount_out,
                                          c.dir, c.o))

\* The cluster moves on to the next slot; what the last instruction returned
\* stays on record.
RetryAdvanceSlot ==
    /\ focus = "retry"
    /\ clock < STALE_AFTER_SLOTS_ELAPSED + MaxSlot + 1
    /\ clock' = clock + 1
    /\ UNCHANGED <<swap, config, ledger, farm, focus, nops, last>>

RetryNext == RetrySwap \/ RetrySwapV2 \/ RetryAdvanceSlot

RetrySpec == RetryInit /\ [][RetryNext]_vars

\* The errors of the oracle resolution of Swap and SwapV2.
OracleErrors ==
    { "InvalidAccountData", "InvalidPythConfig", "StalePythPrice", "InconfidentPythPrice",
      "UnstableMarketPrice", "InvalidSerumData", "CalculationFailure" }

\* The guards of a swap other than its price: the curve quotes the amount,
\* the net output is within the swap-out limit and the caller's minimum, the
\* trader holds the input and the reward source the rewards, the reserves
\* match the pool's token accounts and the trailing accounts are in order.
\* `ps` is the pool with the new price installed.
OtherSwapGuards(c, ps) ==
    LET quote == get_out_amount(ps, c.amount_in, c.dir)
        fee == trade_fee(swap.fees, quote.out)
        admin_fee == admin_trade_fee(swap.fees, fee)
        amount_out == quote.out - fee
        reward == trade_reward_u64(swap.rewards,
                                   IF c.dir = SellBase THEN c.amount_in ELSE amount_out)
        referred == c.o.referral.supplied /\ c.o.referral.data.referrer # DUMMY_REFERRER_ADDRESS
    IN  /\ quote.err = OK
        /\ fee >= 0 /\ admin_fee >= 0 /\ amount_out >= 0 /\ reward >= 0
        /\ DecFrom(amount_out) * 100 <= OutReserve(c.dir) * swap.swap_out_limit_percentage
        /\ amount_out >= c.minimum_amount_out
        /\ ledger[IF c.dir = SellBase THEN "userA" ELSE "userB"] >= c.amount_in
        /\ ReservesMatchBalances
        /\ validate_referral(c.o.referral) = OK
        /\ ledger.rewardSrc >= reward + (IF referred THEN referral_reward(swap.rewards, reward)
                                         ELSE 0)

\* C31: a failed swap never blocks the pool: in the state a Swap or SwapV2
\* that failed with an oracle error leaves, at once or any number of slots
\* later, every Swap and SwapV2 whose price resolves with a slot newer than
\* the pool's last accepted one and which meets the other guards succeeds.
C31_FailedSwapDoesNotBlock ==
    (last.op \in {"swap", "swap_v2"} /\ last.err \in OracleErrors /\ nops < MaxOps) =>
        /\ \A c \in RetryCalls(clock) :
              LET mp == get_market_price_from_pyth(c.o.pyth_a, c.o.pyth_b, clock)
                  ps == set_market_price(swap.pool_state, MintDecimals.a, MintDecimals.b,
                                         mp.price).ps
              IN  ( /\ PassesSwapEntry(c.o)
                    /\ mp.err = OK
                    /\ mp.slot > PriceSlot(swap)
                    /\ OtherSwapGuards(c, ps) )
                      => process_swap(Acc, clock, c.amount_in, c.minimum_amount_out,
                                      c.dir, c.o).err = OK
        /\ \A c \in RetryCalls(clock) :
              LET mp == get_market_price(swap.oracle_priority_flags, c.o.pyth_a, c.o.pyth_b,
                                         clock, c.o.book, swap.token_a_decimals,
                                         swap.token_b_decimals)
                  ps == set_market_price(swap.pool_state, swap.token_a_decimals,
                                         swap.token_b_decimals, mp.price).ps
              IN  ( /\ PassesSwapEntry(c.o)
                    /\ PassesSerumVerification(c.o)
                    /\ mp.err = OK
                    /\ mp.slot > PriceSlot(swap)
                    /\ OtherSwapGuards(c, ps) )
                      => process_swap_v2(Acc, clock, c.amount_in, c.minimum_amount_out,
                                         c.dir, c.o).err = OK

\* A swap that moved tokens succeeded right after one that had failed for a
\* stale Pyth price.
C31_Witness ==
    /\ focus = "retry"
    /\ last.op \in {"swap", "swap_v2"}
    /\ last.err = OK
    /\ last.after = "StalePythPrice"
    /\ last.calc.amount_out > 0
    /\ PriceSlot(swap) = clock

----------------------------------------------------------------------------
(* Administration.  A fourth specification: the admin instructions sent to *)
(* an initialized pool and its config by the admin, by a successor and by  *)
(* a stranger.                                                             *)

AdminSigners ==
    Signers \cup {[key |-> "admin2", is_signer |-> TRUE], [key |-> "admin2", is_signer |-> FALSE]}

\* The accounts of an admin instruction: whether the config and the pool
\* account are owned by the program, and the account passed as admin.
AdminAccounts == { [program_owned |-> po, admin |-> s] : po \in BOOLEAN, s \in AdminSigners }

\* The mint accounts passed to CommitNewAdmin: the config's mint with the
\* config's admin as its freeze authority, the same mint frozen by another
\* key, and another mint.
DeltafiMints ==
    { [key |-> "deltafi_mint", freeze_authority |-> config.admin_key],
      [key |-> "deltafi_mint", freeze_authority |-> "nobody"],
      [key |-> "other_mint", freeze_authority |-> config.admin_key] }

\* Rewards an admin sends with SetNewRewards; the second has too many decimals.
NewRewards ==
    { [ decimals |-> 6, trade_reward_numerator |-> 1, trade_reward_denominator |-> 2,
        trade_reward_cap |-> 3 ],
      [ decimals |-> 11, trade_reward_numerator |-> 1, trade_reward_denominator |-> 2,
        trade_reward_cap |-> 3 ] }

\* The admin instructions offered in a state, decoded.
AdminInstructions ==
    { [name |-> "pause", arg |-> <<>>], [name |-> "unpause", arg |-> <<>>] }
    \cup { [name |-> "set_fee_account", arg |-> [authority |-> au, new_fee_account |-> k]] :
              au \in {"authority", "user"},
              k \in {"adminA", "userB", "vaultA", "vaultC", "poolA", "poolB"} }
    \cup { [name |-> "commit_new_admin", arg |-> [new_admin_key |-> k, mint |-> m]] :
              k \in {"admin", "admin2"}, m \in DeltafiMints }
    \cup { [name |-> "set_new_fees", arg |-> f] : f \in NewFees }
    \cup { [name |-> "set_new_rewards", arg |-> r] : r \in NewRewards }
    \cup { [name |-> "set_farm_rewards", arg |-> [apr_numerator |-> 1, apr_denominator |-> 2]] }
    \cup { [name |-> "set_slope", arg |-> sl] : sl \in Slopes }
    \cup { [name |-> "set_decimals", arg |-> d] : d \in {<<0, 0>>, <<1, 0>>} }
    \cup { [name |-> "set_swap_limit", arg |-> pct] : pct \in SwapLimits }

AdminInit ==
    /\ swap = RetryAccounts(PYTH_ONLY).swap
    /\ config = RetryAccounts(PYTH_ONLY).config
    /\ ledger = RetryAccounts(PYTH_ONLY).ledger
    /\ farm = RetryAccounts(PYTH_ONLY).farm
    /\ clock = STALE_AFTER_SLOTS_ELAPSED
    /\ focus = "admin"
    /\ nops = 0
    /\ last = [NoOp EXCEPT !.op = "initialize"]

\* One admin instruction of the given kind.
AdminCall(name) ==
    /\ focus = "admin"
    /\ \E ix \in AdminInstructions, a \in AdminAccounts :
          /\ ix.name = name
          /\ Execute(name, process_admin_instruction(Acc, ix, a))

AdminPause == AdminCall("pause")

AdminUnpause == AdminCall("unpause")

AdminSetFeeAccount == AdminCall("set_fee_account")

AdminCommitNewAdmin == AdminCall("commit_new_admin")

AdminSetNewFees == AdminCall("set_new_fees")

AdminSetNewRewards == AdminCall("set_new_rewards")

AdminSetFarmRewards == AdminCall("set_farm_rewards")

AdminSetSlope == AdminCall("set_slope")

AdminSetDecimals == AdminCall("set_decimals")

AdminSetSwapLimit == AdminCall("set_swap_limit")

AdminNext ==
    \/ AdminPause
    \/ AdminUnpause
    \/ AdminSetFeeAccount
    \/ AdminCommitNewAdmin
    \/ AdminSetNewFees
    \/ AdminSetNewRewards
    \/ AdminSetFarmRewards
    \/ AdminSetSlope
    \/ AdminSetDecimals
    \/ AdminSetSwapLimit

AdminSpec == AdminInit /\ [][AdminNext]_vars

\* What the admin check returns for the account passed as admin.
AdminCheck(a) ==
    IF a.admin.key # config.admin_key THEN "Unauthorized"
    ELSE IF ~a.admin.is_signer THEN "MissingRequiredSignature"
    ELSE OK

\* C32 (as stated): every admin instruction fails with Unauthorized when the
\* account passed as admin is not the config's admin_key and with
\* MissingRequiredSignature when it is but did not sign, and leaves the pool
\* and the config unchanged in both cases.
C32_AdminOnly ==
    Callable =>
        \A ix \in AdminInstructions, a \in AdminAccounts :
            LET r == process_admin_instruction(Acc, ix, a)
            IN  AdminCheck(a) # OK => (r.err = AdminCheck(a) /\ Commit(Acc, r) = Acc)

\* C32 (amended): every admin instruction whose config and pool accounts are
\* owned by the program fails with Unauthorized when the account passed as
\* admin is not the config's admin_key and with MissingRequiredSignature when
\* it is but did not sign; one whose accounts are not owned by the program
\* fails with InvalidAccountOwner whoever the admin is; the pool and the
\* config are unchanged in every such case.
C32_AdminOnlyOnProgramAccounts ==
    Callable =>
        \A ix \in AdminInstructions, a \in AdminAccounts :
            LET r == process_admin_instruction(Acc, ix, a)
            IN  /\ (a.program_owned /\ AdminCheck(a) # OK) =>
                       (r.err = AdminCheck(a) /\ Commit(Acc, r) = Acc)
                /\ ~a.program_owned =>
                       (r.err = "InvalidAccountOwner" /\ Commit(Acc, r) = Acc)

\* A stranger's instruction was refused as Unauthorized after the admin had
\* handed the config over, in a pool the new admin could pause.
C32_Witness ==
    /\ focus = "admin"
    /\ last.err = "Unauthorized"
    /\ config.admin_key = "admin2"
    /\ swap.is_initialized

----------------------------------------------------------------------------
(* Farm instructions sent one after another to one farm user, as the farm *)
(* fuzz harness sends them: every instruction is attempted whatever the   *)
(* one before returned, and the amounts of the successful deposits and    *)
(* withdrawals are added up next to the accounts.                         *)

\* NativeFarm::new: the position the farm user starts with
OriginalAmounts == {0, 2}

StakeInit ==
    /\ swap = SwapInfoDefault
    /\ config = ConfigInfo
    /\ \E original_amount \in OriginalAmounts :
          /\ ledger = [ poolA |-> 40, poolB |-> 40, userA |-> 40, userB |-> 40,
                        adminA |-> 0, adminB |-> 0, supply |-> 0, userLP |-> 0,
                        rewardSrc |-> 3, userReward |-> 0, referrerReward |-> 0,
                        farmUser |-> 6, farmPool |-> original_amount ]
          /\ farm = [ info |-> [reserved_amount |-> original_amount,
                                apr_numerator |-> 1, apr_denominator |-> 4],
                      user |-> [ owner |-> "user",
                                 position |-> [deposited_amount |-> original_amount,
                                               latest_deposit_slot |-> 0] ] ]
          /\ last = [ op |-> "farm_user_initialize", err |-> OK, xfers |-> 0, calc |-> NoCalc,
                      original_amount |-> original_amount,
                      deposited_amount |-> 0, withdrawn_amount |-> 0 ]
    /\ clock = STALE_AFTER_SLOTS_ELAPSED
    /\ focus = "stake"
    /\ nops = 0

\* run_farm_fuzz: one instruction of the sequence, and the harness's sums
StakeAttempt(op, res, amount) ==
    /\ focus = "stake"
    /\ nops < MaxOps
    /\ LET kept == Commit(Acc, res)
       IN  /\ swap' = kept.swap
           /\ config' = kept.config
           /\ ledger' = kept.ledger
           /\ farm' = kept.farm
    /\ last' = [ op |-> op, err |-> res.err, xfers |-> res.xfers,
                 calc |-> IF res.err = OK THEN res.calc ELSE NoCalc,
                 original_amount |-> last.original_amount,
                 deposited_amount |->
                     IF op = "farm_deposit" /\ res.err = OK
                     THEN last.deposited_amount + amount ELSE last.deposited_amount,
                 withdrawn_amount |->
                     IF op = "farm_withdraw" /\ res.err = OK
                     THEN last.withdrawn_amount + amount ELSE last.withdrawn_amount ]
    /\ nops' = nops + 1
    /\ UNCHANGED <<clock, focus>>

StakeDeposit ==
    \E amount \in FarmAmounts, owner \in Signers :
        StakeAttempt("farm_deposit", process_farm_deposit(Acc, clock, amount, owner), amount)

StakeWithdraw ==
    \E amount \in FarmAmounts, owner \in Signers :
        StakeAttempt("farm_withdraw", process_farm_withdraw(Acc, clock, amount, owner), amount)

StakeRefresh == StakeAttempt("farm_refresh", process_farm_refresh(Acc), 0)

StakeAdvanceSlot ==
    /\ focus = "stake"
    /\ clock < STALE_AFTER_SLOTS_ELAPSED + MaxSlot + 1
    /\ clock' = clock + 1
    /\ UNCHANGED <<swap, config, ledger, farm, focus, nops, last>>

StakeNext == StakeDeposit \/ StakeWithdraw \/ StakeRefresh \/ StakeAdvanceSlot

StakeSpec == StakeInit /\ [][StakeNext]_vars

\* C33: after any sequence of farm Deposit, Withdraw and Refresh instructions
\* the deposited amount of the position is the amount it started with, plus
\* the amounts of the deposits that succeeded, minus the amounts of the
\* withdrawals that succeeded; an instruction that failed adds nothing.
C33_DepositedAmountIsTheSum ==
    focus = "stake" =>
        farm.user.position.deposited_amount =
            last.original_amount + last.deposited_amount - last.withdrawn_amount

\* A sequence with a deposit and a withdrawal that succeeded, ending in an
\* instruction that failed.
C33_Witness ==
    /\ focus = "stake"
    /\ last.deposited_amount > 0
    /\ last.withdrawn_amount > 0
    /\ last.err # OK
    /\ farm.user.position.deposited_amount = last.original_amount

\* The farm owner's signed account
FarmOwner == [key |-> "user", is_signer |-> TRUE]

\* C34: a farm withdraw in the slot of the user's latest deposit is rejected
\* by the flash-loan guard, whatever the amount; in any later slot a
\* withdraw of no more than the deposited amount succeeds.
C34_WithdrawAfterDepositSlot ==
    focus = "stake" =>
        \A amount \in FarmAmounts :
            LET position == farm.user.position
                r == process_farm_withdraw(Acc, clock, amount, FarmOwner)
            IN  /\ clock = position.latest_deposit_slot => r.err = "FlashLoanAttack"
                /\ (clock > position.latest_deposit_slot
                    /\ amount <= position.deposited_amount) => r.err = OK

\* A withdraw that succeeded in the slot after the user's latest deposit.
C34_Witness ==
    /\ focus = "stake"
    /\ last.op = "farm_withdraw"
    /\ last.err = OK
    /\ last.withdrawn_amount > 0
    /\ last.deposited_amount > 0
    /\ clock = farm.user.position.latest_deposit_slot + 1

\* C35: in every successful swap the amount that leaves the output-side
\* reserve, the trader's amount_out plus the admin fee, is at most
\* swap_out_limit_percentage percent of that reserve before the swap.
C35_TotalOutWithinLimit ==
    Callable =>
    \A r \in SwapOutcomes :
        (r.err = OK /\ r.calc.kind = "swap")
          => DecFrom(r.calc.amount_out + r.calc.admin_fee) * 100
                 <= OutReserve(r.calc.direction) * swap.swap_out_limit_percentage

\* C36: in every pool state the admin fee accounts are token accounts of the
\* mints of token A and token B, are not owned by the swap authority and are
\* not the pool's reserve accounts, also after an admin SetFeeAccount.
C36_AdminFeeAccountsApart ==
    swap.is_initialized =>
        /\ TokenAccounts[swap.admin_fee_key_a].mint = TokenAccounts["poolA"].mint
        /\ TokenAccounts[swap.admin_fee_key_b].mint = TokenAccounts["poolB"].mint
        /\ TokenAccounts[swap.admin_fee_key_a].owner # "authority"
        /\ TokenAccounts[swap.admin_fee_key_b].owner # "authority"
        /\ {swap.admin_fee_key_a, swap.admin_fee_key_b} \cap {"poolA", "poolB"} = {}

\* C37: when get_pyth_price succeeds at the current slot c it returns the
\* price account's valid_slot v itself, and c - 9 <= v <= c; a price account
\* whose valid_slot is ahead of the current slot is rejected with
\* CalculationFailure and is not clamped to c.
C37_ReturnsValidSlot ==
    PythPriceSeen =>
        LET v == last.calc.account.valid_slot
        IN  /\ last.err = OK => /\ last.calc.slot = v
                                /\ clock - (STALE_AFTER_SLOTS_ELAPSED - 1) <= v
                                /\ v <= clock
            /\ v > clock => last.err = "CalculationFailure"

\* A price of the oldest age still accepted came back with its own slot.
C37_Witness ==
    /\ PythPriceSeen
    /\ last.err = OK
    /\ last.calc.account.valid_slot = clock - (STALE_AFTER_SLOTS_ELAPSED - 1)
    /\ last.calc.slot = last.calc.account.valid_slot

\* A CommitNewAdmin has just succeeded and another instruction can follow.
AdminHandedOver ==
    /\ focus = "admin"
    /\ last.op = "commit_new_admin"
    /\ last.err = OK
    /\ nops < MaxOps

SignedBy(key) == [key |-> key, is_signer |-> TRUE]

\* The administrator check let the instruction through.
AdminAccepted(r) == r.err \notin {"Unauthorized", "MissingRequiredSignature"}

----------------------------------------------------------------------------
(* SetReferrer.  The ledger holds the referrer records of two traders      *)
(* under two configs, by address; instructions keep arriving whatever the *)
(* one before returned.                                                    *)

ReferrerOwners ==
    { [key |-> "user", is_signer |-> TRUE], [key |-> "user", is_signer |-> FALSE],
      [key |-> "user2", is_signer |-> TRUE] }

ReferrerDataKeys ==
    { get_referrer_data_pubkey(o, k) : o \in {"user", "user2"}, k \in {"config", "config2"} }

\* The accounts a SetReferrer instruction is sent with.
SetReferrerCalls ==
    { [ config_key |-> k, owner |-> o, user_referrer_key |-> d, referrer_token_key |-> t,
        program_owned |-> po, rent_exempt |-> re ] :
          k \in {"config", "config2"}, o \in ReferrerOwners, d \in ReferrerDataKeys,
          t \in DOMAIN ReferrerTokenAccounts \cup {DUMMY_REFERRER_ADDRESS},
          po \in BOOLEAN, re \in BOOLEAN }

ReferrerInit ==
    /\ swap = SwapInfoDefault
    /\ config = ConfigInfo
    /\ ledger = [d \in ReferrerDataKeys |-> UserReferrerDataDefault]
    /\ farm = <<>>
    /\ clock = STALE_AFTER_SLOTS_ELAPSED
    /\ focus = "referrer"
    /\ nops = 0
    /\ last = NoOp

SetReferrer ==
    /\ focus = "referrer"
    /\ \E c \in SetReferrerCalls : Attempt("set_referrer", process_set_referrer(Acc, c))

ReferrerNext == SetReferrer

ReferrerSpec == ReferrerInit /\ [][ReferrerNext]_vars

\* The referrer record of the owner and config a SetReferrer names.
ReferrerRecord(c) == ledger[get_referrer_data_pubkey(c.owner.key, c.config_key)]

\* The errors of the checks process_set_referrer makes before assert_uninitialized.
BeforeReferrerUninitialized == {"InvalidAccountOwner", "ExpectedMint", "NotRentExempt"}

SelfReferral(c) ==
    /\ c.referrer_token_key # DUMMY_REFERRER_ADDRESS
    /\ ReferrerTokenAccounts[c.referrer_token_key].owner = c.owner.key

\* What SetReferrer requires in every state: the owner's signature, and a
\* referrer token account that is not the owner's own.
SetReferrerRequirements ==
    \A c \in SetReferrerCalls :
        LET r == process_set_referrer(Acc, c)
        IN  /\ ~c.owner.is_signer => r.err # OK
            /\ SelfReferral(c) => r.err \in {"InvalidAccountOwner", "ExpectedMint"}

\* C39 as stated: a referrer record is written at most once per config: a
\* second SetReferrer for the same owner fails with AlreadyInUse and the
\* stored referrer never changes; SetReferrer requires the owner's signature
\* and rejects a referrer token account owned by the user.
C39_ReferrerOnceAlreadyInUse ==
    /\ [](focus = "referrer" =>
            /\ \A c \in SetReferrerCalls :
                   ReferrerRecord(c).is_initialized
                       => process_set_referrer(Acc, c).err = "AlreadyInUse"
            /\ SetReferrerRequirements)
    /\ [][focus = "referrer" =>
            \A d \in ReferrerDataKeys : ledger[d].is_initialized => ledger'[d] = ledger[d]]_vars

\* C39, amended: a referrer record is written at most once per config: a
\* second SetReferrer for the same owner always fails, with AlreadyInUse once
\* it has passed the checks that precede assert_uninitialized and with the
\* error of the first of those checks that fails otherwise, and the stored
\* referrer never changes; SetReferrer requires the owner's signature and
\* rejects a referrer token account owned by the user.
C39_ReferrerOnce ==
    /\ [](focus = "referrer" =>
            /\ \A c \in SetReferrerCalls :
                   ReferrerRecord(c).is_initialized
                       => LET r == process_set_referrer(Acc, c)
                          IN  /\ r.err \in {"AlreadyInUse"} \cup BeforeReferrerUninitialized
                              /\ (/\ c.program_owned
                                  /\ c.user_referrer_key
                                        = get_referrer_data_pubkey(c.owner.key, c.config_key)
                                  /\ c.referrer_token_key \in {DUMMY_REFERRER_ADDRESS,
                                                                "referrerReward"}
                                  /\ c.rent_exempt) => r.err = "AlreadyInUse"
            /\ SetReferrerRequirements)
    /\ [][focus = "referrer" =>
            \A d \in ReferrerDataKeys : ledger[d].is_initialized => ledger'[d] = ledger[d]]_vars

\* A second SetReferrer was refused with AlreadyInUse after the first one
\* had stored a referrer for the trader.
C39_Witness ==
    /\ focus = "referrer"
    /\ last.op = "set_referrer"
    /\ last.err = "AlreadyInUse"
    /\ last.after = OK
    /\ ledger[get_referrer_data_pubkey("user", "config")].referrer = "referrerReward"

====
